---- MODULE Spec2Model ----
(***************************************************************************)
(* Model of the tokenix SDK: the DashboardClient (config subscription with *)
(* WebSocket -> SSE -> polling fallback, retryRequest with exponential     *)
(* backoff) and the LLMCreditSDK call wrapper that posts reconciliation    *)
(* logs to the dashboard.                                                  *)
(*                                                                         *)
(* The JavaScript run-to-completion semantics is kept: every action is one *)
(* task or microtask (a public method call, an event handler, a timer      *)
(* callback, a promise reaction).  Promise reactions queued by a task are  *)
(* kept in a FIFO queue; events and timers are delivered only when that    *)
(* queue is empty.                                                         *)
(***************************************************************************)
EXTENDS Integers, Sequences, FiniteSets, TLC

(***************************************************************************)
(* Bounds of the model.                                                    *)
(***************************************************************************)
MaxConns == 2
MaxIntervals == 2
MaxSubscribeCalls == 2
MaxPollFetches == 2
MaxEnableCalls == 2
MaxUpdates == 1
MaxMutations == 1

(***************************************************************************)
(* Program constants.                                                      *)
(***************************************************************************)
NULL == 0
ConnectTimeoutMs == 10000
ReconnectDelayMs == 5000
PollIntervalMs == 30000

VARIABLES
    \* ---- DashboardClient fields (dashboardClient.ts:49-52)
    isSubscribed,        \* private isSubscribed
    configSubscription,  \* NULL or the index in conns of the adopted stream
    pollingInterval,     \* NULL or the index in intervals of the tracked timer
    \* ---- objects the client created in its environment
    conns,               \* every WebSocket / EventSource constructed so far
    intervals,           \* every setInterval timer: [active, ms]
    reconnects,          \* delays of the pending setTimeout(reconnect, 5000) timers
    microtasks,          \* queued promise reactions (.catch handlers)
    pollFetches,         \* getConfig() calls started by startPolling / ticks
    pollsInFlight,       \* those of them whose promise is still pending
    event,               \* what the last step received and what it passed to onUpdate
    subscribeCalls,      \* number of subscribeToConfigUpdates() calls so far
    wsAvailable,         \* typeof WebSocket !== 'undefined'
    sseAvailable,        \* typeof EventSource !== 'undefined'
    \* ---- one retryRequest() run (dashboardClient.ts:314-340)
    reqOp,               \* "none" | "post" | "getConfig": the operation retried
    reqPc,               \* "idle" | "fetching" | "reading" | "backoff" | "resolved" | "rejected"
    attempt,             \* the loop variable of retryRequest
    fetchCalls,          \* number of fetch() calls made (transport calls)
    abortTimer,          \* the setTimeout(() => controller.abort(), 5000) of the attempt
    delays,              \* the delays of the backoff timers set so far, in order
    outcomes,            \* how each finished attempt ended, in order
    lastError,           \* let lastError
    reqResult,           \* the value the operation resolved with
    \* ---- LLMCreditSDK fields and one wrapCall() run (sdk.ts with dashboard sync)
    dashboardSyncEnabled, \* private dashboardSyncEnabled
    dashboardClient,     \* TRUE iff this.dashboardClient is not null
    replacedClients,     \* clients the engine replaced while they were subscribed
    callbackGiven,       \* TRUE once a client was given the callback that emits 'configUpdated'
    enableCalls,         \* number of enableDashboardSync() calls so far
    wrapPc,              \* "idle" | "invoking" | "returned" | "threw"
    wrapError,           \* the error wrapCall rejected with, or "none"
    postPromise,         \* promise of postReconciliationToDashboard: "none" | "pending" | "resolved" | "rejected"
    postErrorsLogged,    \* console.error calls of postReconciliationToDashboard
    appRejections,       \* rejections of the posting path that reach the application
    lastSyncCall,        \* how the last enable/disableDashboardSync call ended
    \* ---- the wrapCall() run in more detail (sdk.ts with dashboard sync: 163-217)
    wrapInput,           \* the WrapCallInput: model, feature, promptTokens, completionTokens
    configAtCall,        \* this.config when wrapCall was called
    estimate,            \* const estimate
    steps,               \* the steps wrapCall has run, in order
    invocations,         \* number of callFunction() calls
    functionOutcome,     \* what callFunction() settled with
    extractorOutcome,    \* what tokenExtractor.extract(response) did
    wrapResult,          \* the WrapCallResult wrapCall resolved with
    calls,               \* the wrapCall() runs in flight together, by call: locals and position
    postedLog,           \* the ReconciliationLog given to dashboardClient.postReconciliation
    \* ---- LLMCreditSDK configuration (sdk.ts with dashboard sync: 52, 61-71, 284-286)
    heap,                \* the objects configurations are made of
    config,              \* this.config of each engine instance
    custom,              \* the customConfig engine 1 was constructed with
    updates,             \* number of configUpdated events handled
    lastDoc,             \* the document of the last configUpdated event
    returned,            \* the value the last getConfig() call returned
    lastEval,            \* the last estimateCredits / reconcile / getConfig call
    mutations            \* writes the application made through a returned value

reqVars == <<reqOp, reqPc, attempt, fetchCalls, abortTimer, delays, outcomes,
             lastError, reqResult>>

callVars == <<wrapInput, configAtCall, estimate, steps, invocations, functionOutcome,
              extractorOutcome, wrapResult, calls, postedLog>>

engVars == <<heap, config, custom, updates, lastDoc, returned, lastEval, mutations>>

wrapVars == <<dashboardSyncEnabled, dashboardClient, replacedClients, callbackGiven,
              enableCalls, wrapPc, wrapError,
              postPromise, postErrorsLogged, appRejections, lastSyncCall, callVars,
              engVars>>

subVars == <<isSubscribed, configSubscription, pollingInterval, conns, intervals,
             reconnects, microtasks, pollFetches, pollsInFlight, event, subscribeCalls,
             wsAvailable, sseAvailable>>

vars == <<subVars, reqVars, wrapVars>>

(***************************************************************************)
(* The client and the objects it created, as one value, so that the        *)
(* methods can be written as functions and composed in program order.      *)
(***************************************************************************)
\* Configuration documents a response body or a message can parse to.
Docs == {"configA", "configB"}

\* A step that received nothing from the dashboard and did not call onUpdate.
\* Otherwise from is "ws" | "sse" (a message event), "poll" (a getConfig() of
\* the polling resolved) or "pollFailed" (it rejected after its retries); doc
\* is what was received and onUpdate the configuration passed to the callback,
\* or "none".
NoEvent == [from |-> "none", doc |-> "none", onUpdate |-> "none"]

Cur ==
    [isSubscribed |-> isSubscribed, configSubscription |-> configSubscription,
     pollingInterval |-> pollingInterval, conns |-> conns, intervals |-> intervals,
     reconnects |-> reconnects, microtasks |-> microtasks,
     pollFetches |-> pollFetches, pollsInFlight |-> pollsInFlight, event |-> NoEvent,
     subscribeCalls |-> subscribeCalls]

Becomes(s) ==
    /\ isSubscribed' = s.isSubscribed
    /\ configSubscription' = s.configSubscription
    /\ pollingInterval' = s.pollingInterval
    /\ conns' = s.conns
    /\ intervals' = s.intervals
    /\ reconnects' = s.reconnects
    /\ microtasks' = s.microtasks
    /\ pollFetches' = s.pollFetches
    /\ pollsInFlight' = s.pollsInFlight
    /\ event' = s.event
    /\ subscribeCalls' = s.subscribeCalls
    /\ UNCHANGED <<wsAvailable, sseAvailable>>

\* A stream object.  kind: "ws" | "sse".  readyState: CONNECTING, OPEN,
\* CLOSING (close() called or connection failed, close event still to come),
\* CLOSED.  promise: the promise of the try...Subscription call that made it.
\* onReject: the .catch handler attached to that promise.  timeout: the 10 s
\* connection timer is still pending.
NewConn(kind, onReject) ==
    [kind |-> kind, readyState |-> "CONNECTING", promise |-> "pending",
     onReject |-> onReject, timeout |-> TRUE, timeoutMs |-> ConnectTimeoutMs]

Live(c) == c.readyState \in {"CONNECTING", "OPEN"}

\* new Promise(...reject...) followed by .catch(handler): the handler runs as a
\* microtask.
QueueReaction(s, handler) == [s EXCEPT !.microtasks = Append(@, handler)]

\* Faulty variant: the rejection has no .catch handler: no fallback runs.
RejectConn_unhandled(s, i) ==
    IF s.conns[i].promise = "pending"
    THEN [s EXCEPT !.conns[i].promise = "rejected"]
    ELSE s

\* reject(...) of the promise of stream i: only the first settlement counts.
RejectConn(s, i) ==
    IF s.conns[i].promise = "pending"
    THEN QueueReaction([s EXCEPT !.conns[i].promise = "rejected"], s.conns[i].onReject)
    ELSE s

ResolveConn(s, i) ==
    IF s.conns[i].promise = "pending"
    THEN [s EXCEPT !.conns[i].promise = "resolved"]
    ELSE s

\* close() of a stream object.  A WebSocket goes to CLOSING and fires its
\* close event later; an EventSource is CLOSED at once and fires nothing.
CloseConn(s, i) ==
    IF s.conns[i].readyState = "CLOSED" THEN s
    ELSE IF s.conns[i].kind = "ws"
         THEN [s EXCEPT !.conns[i].readyState = "CLOSING"]
         ELSE [s EXCEPT !.conns[i].readyState = "CLOSED"]

(***************************************************************************)
(* startPolling (dashboardClient.ts:292-309): a new interval timer is      *)
(* stored in pollingInterval whatever it held; the initial fetch starts.   *)
(***************************************************************************)
CanStartPolling(s) ==
    Len(s.intervals) < MaxIntervals /\ s.pollFetches < MaxPollFetches

startPolling(s) ==
    [s EXCEPT !.intervals = Append(@, [active |-> TRUE, ms |-> PollIntervalMs]),
              !.pollingInterval = Len(s.intervals) + 1,
              !.pollFetches = @ + 1,
              !.pollsInFlight = @ + 1]

(***************************************************************************)
(* trySSESubscription (dashboardClient.ts:240-287), up to the return of    *)
(* the promise, with the .catch of subscribeToConfigUpdates attached.      *)
(***************************************************************************)
trySSESubscription(s, available) ==
    IF ~available
    THEN QueueReaction(s, "startPolling")
    ELSE [s EXCEPT !.conns = Append(@, NewConn("sse", "startPolling"))]

(***************************************************************************)
(* tryWebSocketSubscription (dashboardClient.ts:174-235), up to the return *)
(* of the promise, with the caller's .catch handler attached.              *)
(***************************************************************************)
tryWebSocketSubscription(s, available, onReject) ==
    IF ~available
    THEN QueueReaction(s, onReject)
    ELSE [s EXCEPT !.conns = Append(@, NewConn("ws", onReject))]

(***************************************************************************)
(* subscribeToConfigUpdates (dashboardClient.ts:100-117).                  *)
(***************************************************************************)
\* Faulty variant: the isSubscribed guard is missing.
subscribeToConfigUpdates_noGuard(s, available) ==
    tryWebSocketSubscription([s EXCEPT !.isSubscribed = TRUE], available, "trySSE")

subscribeToConfigUpdates(s, available) ==
    IF s.isSubscribed
    THEN s
    ELSE tryWebSocketSubscription([s EXCEPT !.isSubscribed = TRUE], available, "trySSE")

(***************************************************************************)
(* unsubscribe (dashboardClient.ts:122-136).                               *)
(***************************************************************************)
unsubscribe(s) ==
    LET s1 == [s EXCEPT !.isSubscribed = FALSE]
        s2 == IF s1.configSubscription # NULL
              THEN [CloseConn(s1, s1.configSubscription) EXCEPT !.configSubscription = NULL]
              ELSE s1
    IN  IF s2.pollingInterval # NULL
        THEN [s2 EXCEPT !.intervals[s2.pollingInterval].active = FALSE,
                        !.pollingInterval = NULL]
        ELSE s2

(***************************************************************************)
(* Actions of the subscription machine.                                    *)
(***************************************************************************)
ConnIds == 1..Len(conns)
Quiet == microtasks = <<>>
RoomForConn(needed) == needed => Len(conns) < MaxConns

InitSub ==
    /\ isSubscribed = FALSE
    /\ configSubscription = NULL
    /\ pollingInterval = NULL
    /\ conns = <<>>
    /\ intervals = <<>>
    /\ reconnects = <<>>
    /\ microtasks = <<>>
    /\ pollFetches = 0
    /\ pollsInFlight = 0
    /\ event = NoEvent
    /\ subscribeCalls = 0
    /\ wsAvailable \in BOOLEAN
    /\ sseAvailable \in BOOLEAN

InitWrap ==
    /\ dashboardSyncEnabled = FALSE
    /\ dashboardClient = FALSE
    /\ replacedClients = 0
    /\ callbackGiven = FALSE
    /\ enableCalls = 0
    /\ wrapPc = "idle"
    /\ wrapError = "none"
    /\ postPromise = "none"
    /\ postErrorsLogged = 0
    /\ appRejections = 0
    /\ lastSyncCall = "none"

\* The application calls client.subscribeToConfigUpdates(onUpdate).
Subscribe ==
    /\ subscribeCalls < MaxSubscribeCalls
    /\ RoomForConn(~isSubscribed /\ wsAvailable)
    /\ Becomes([subscribeToConfigUpdates(Cur, wsAvailable) EXCEPT !.subscribeCalls = @ + 1])
    /\ UNCHANGED <<reqVars, wrapVars>>

\* The application calls client.unsubscribe().
Unsubscribe ==
    /\ Becomes(unsubscribe(Cur))
    /\ UNCHANGED <<reqVars, wrapVars>>

\* The .catch of the first WebSocket attempt runs: fall back to SSE
\* (dashboardClient.ts:109-116).
RunTrySSE ==
    /\ microtasks # <<>> /\ Head(microtasks) = "trySSE"
    /\ RoomForConn(sseAvailable)
    /\ Becomes(trySSESubscription([Cur EXCEPT !.microtasks = Tail(@)], sseAvailable))
    /\ UNCHANGED <<reqVars, wrapVars>>

\* The .catch of the SSE attempt or of a reconnect attempt runs: start polling
\* (dashboardClient.ts:112-115, 215-217).
RunStartPolling ==
    /\ microtasks # <<>> /\ Head(microtasks) = "startPolling"
    /\ CanStartPolling(Cur)
    /\ Becomes(startPolling([Cur EXCEPT !.microtasks = Tail(@)]))
    /\ UNCHANGED <<reqVars, wrapVars>>

\* ws.onopen (dashboardClient.ts:189-193).
WsOnOpen(i) ==
    /\ Quiet /\ conns[i].kind = "ws" /\ conns[i].readyState = "CONNECTING"
    /\ Becomes(ResolveConn([Cur EXCEPT !.conns[i].readyState = "OPEN",
                                       !.configSubscription = i], i))
    /\ UNCHANGED <<reqVars, wrapVars>>

\* ws.onerror (dashboardClient.ts:204-207); the failed socket will fire close.
WsOnError(i) ==
    /\ Quiet /\ conns[i].kind = "ws" /\ Live(conns[i])
    /\ Becomes(RejectConn([Cur EXCEPT !.conns[i].readyState = "CLOSING"], i))
    /\ UNCHANGED <<reqVars, wrapVars>>

\* ws.onclose (dashboardClient.ts:209-221): the server closed an open socket, or
\* the close event of a failed or closed socket arrives.
WsOnClose(i) ==
    /\ Quiet /\ conns[i].kind = "ws" /\ conns[i].readyState \in {"OPEN", "CLOSING"}
    /\ Becomes([Cur EXCEPT !.conns[i].readyState = "CLOSED",
                           !.reconnects = IF isSubscribed
                                          THEN Append(@, ReconnectDelayMs) ELSE @])
    /\ UNCHANGED <<reqVars, wrapVars>>

\* The 5 s timer set by ws.onclose fires (dashboardClient.ts:213-219).
ReconnectTimer ==
    /\ Quiet /\ reconnects # <<>>
    /\ RoomForConn(isSubscribed /\ wsAvailable)
    /\ LET s == [Cur EXCEPT !.reconnects = Tail(@)]
       IN  Becomes(IF isSubscribed
                   THEN tryWebSocketSubscription(s, wsAvailable, "startPolling")
                   ELSE s)
    /\ UNCHANGED <<reqVars, wrapVars>>

\* The 10 s connection timer of a WebSocket fires (dashboardClient.ts:224-229).
WsConnectTimeout(i) ==
    /\ Quiet /\ conns[i].kind = "ws" /\ conns[i].timeout
    /\ LET s == [Cur EXCEPT !.conns[i].timeout = FALSE]
       IN  Becomes(IF conns[i].readyState = "CONNECTING"
                   THEN RejectConn(CloseConn(s, i), i)
                   ELSE s)
    /\ UNCHANGED <<reqVars, wrapVars>>

\* eventSource.onopen (dashboardClient.ts:255-259).
SseOnOpen(i) ==
    /\ Quiet /\ conns[i].kind = "sse" /\ conns[i].readyState = "CONNECTING"
    /\ Becomes(ResolveConn([Cur EXCEPT !.conns[i].readyState = "OPEN",
                                       !.configSubscription = i], i))
    /\ UNCHANGED <<reqVars, wrapVars>>

\* eventSource.onerror (dashboardClient.ts:270-273).  An EventSource either
\* gives up (CLOSED) or goes back to CONNECTING to retry by itself.
SseOnError(i, fatal) ==
    /\ Quiet /\ conns[i].kind = "sse" /\ Live(conns[i])
    /\ Becomes(RejectConn([Cur EXCEPT !.conns[i].readyState =
                                        IF fatal THEN "CLOSED" ELSE "CONNECTING"], i))
    /\ UNCHANGED <<reqVars, wrapVars>>

\* The 10 s connection timer of an EventSource fires (dashboardClient.ts:276-281).
SseConnectTimeout(i) ==
    /\ Quiet /\ conns[i].kind = "sse" /\ conns[i].timeout
    /\ LET s == [Cur EXCEPT !.conns[i].timeout = FALSE]
       IN  Becomes(IF conns[i].readyState = "CONNECTING"
                   THEN RejectConn(CloseConn(s, i), i)
                   ELSE s)
    /\ UNCHANGED <<reqVars, wrapVars>>

\* A 30 s tick of a polling interval that was not cleared
\* (dashboardClient.ts:296-303): one more getConfig() is started.
PollTick(k) ==
    /\ Quiet /\ intervals[k].active /\ pollFetches < MaxPollFetches
    /\ Becomes([Cur EXCEPT !.pollFetches = @ + 1, !.pollsInFlight = @ + 1])
    /\ UNCHANGED <<reqVars, wrapVars>>

\* What a message event can carry: a configuration document, or text that
\* JSON.parse rejects.
MessageData == {"configA", "notJson"}

\* JSON.parse(event.data) then onUpdate(config); a parse error is logged and
\* onUpdate is not called (dashboardClient.ts:195-202, 261-268).
OnMessage(s, kind, data) ==
    [s EXCEPT !.event = [from |-> kind, doc |-> data,
                         onUpdate |-> IF data \in Docs THEN data ELSE "none"]]

\* ws.onmessage (dashboardClient.ts:195-202): an open socket delivers a message.
WsOnMessage(i, data) ==
    /\ Quiet /\ conns[i].kind = "ws" /\ conns[i].readyState = "OPEN"
    /\ Becomes(OnMessage(Cur, "ws", data))
    /\ UNCHANGED <<reqVars, wrapVars>>

\* eventSource.onmessage (dashboardClient.ts:261-268).
SseOnMessage(i, data) ==
    /\ Quiet /\ conns[i].kind = "sse" /\ conns[i].readyState = "OPEN"
    /\ Becomes(OnMessage(Cur, "sse", data))
    /\ UNCHANGED <<reqVars, wrapVars>>

\* A getConfig() started by startPolling or by a tick resolves with a document:
\* onUpdate(config) is called (dashboardClient.ts:298-299, 306-307).  The
\* attempts of the call are those of SpecRetry; here it is one step.
PollFetchResolves(doc) ==
    /\ Quiet /\ pollsInFlight > 0
    /\ Becomes([Cur EXCEPT !.pollsInFlight = @ - 1,
                           !.event = [from |-> "poll", doc |-> doc, onUpdate |-> doc]])
    /\ UNCHANGED <<reqVars, wrapVars>>

\* Faulty variant: a failed poll gives up polling: the timer is cleared.
PollFetchRejects_stopsPolling ==
    /\ Quiet /\ pollsInFlight > 0
    /\ Becomes(LET s == [Cur EXCEPT !.pollsInFlight = @ - 1,
                                    !.event = [NoEvent EXCEPT !.from = "pollFailed"]]
               IN  IF s.pollingInterval # NULL
                   THEN [s EXCEPT !.intervals[s.pollingInterval].active = FALSE,
                                  !.pollingInterval = NULL]
                   ELSE s)
    /\ UNCHANGED <<reqVars, wrapVars>>

\* It rejects, after the retries of retryRequest: the error is logged
\* (dashboardClient.ts:300-302, 308).
PollFetchRejects ==
    /\ Quiet /\ pollsInFlight > 0
    /\ Becomes([Cur EXCEPT !.pollsInFlight = @ - 1,
                           !.event = [NoEvent EXCEPT !.from = "pollFailed"]])
    /\ UNCHANGED <<reqVars, wrapVars>>



NextSub ==
    \/ Subscribe
    \/ Unsubscribe
    \/ RunTrySSE
    \/ RunStartPolling
    \/ \E i \in ConnIds : WsOnOpen(i)
    \/ \E i \in ConnIds : WsOnError(i)
    \/ \E i \in ConnIds : WsOnClose(i)
    \/ ReconnectTimer
    \/ \E i \in ConnIds : WsConnectTimeout(i)
    \/ \E i \in ConnIds : SseOnOpen(i)
    \/ \E i \in ConnIds, fatal \in BOOLEAN : SseOnError(i, fatal)
    \/ \E i \in ConnIds : SseConnectTimeout(i)
    \/ \E k \in 1..Len(intervals) : PollTick(k)

\* The subscription machine against a dashboard that accepts no push
\* connection (every attempt fails or times out), with the outcomes of the
\* getConfig() calls of the polling.
NextPolling ==
    \/ Subscribe
    \/ Unsubscribe
    \/ RunTrySSE
    \/ RunStartPolling
    \/ \E i \in ConnIds : WsOnError(i)
    \/ \E i \in ConnIds : WsOnClose(i)
    \/ ReconnectTimer
    \/ \E i \in ConnIds : WsConnectTimeout(i)
    \/ \E i \in ConnIds, fatal \in BOOLEAN : SseOnError(i, fatal)
    \/ \E i \in ConnIds : SseConnectTimeout(i)
    \/ \E k \in 1..Len(intervals) : PollTick(k)
    \/ \E doc \in Docs : PollFetchResolves(doc)
    \/ PollFetchRejects

\* The whole subscription machine with the outcomes of the polls and the
\* messages the dashboard sends on the open streams.
NextUpdates ==
    \/ NextSub
    \/ \E doc \in Docs : PollFetchResolves(doc)
    \/ PollFetchRejects
    \/ \E i \in ConnIds, data \in MessageData : WsOnMessage(i, data)
    \/ \E i \in ConnIds, data \in MessageData : SseOnMessage(i, data)


(***************************************************************************)
(* retryRequest, postReconciliation and getConfig                          *)
(* (dashboardClient.ts:62-94, 141-169, 314-340).                           *)
(***************************************************************************)
maxRetries == 3
baseDelay == 500
RequestTimeoutMs == 5000

\* What the remote endpoint can answer: status and status text of a response.
Responses ==
    { [status |-> 200, statusText |-> "OK"],
      [status |-> 404, statusText |-> "Not Found"],
      [status |-> 500, statusText |-> "Internal Server Error"] }

\* response.ok of the fetch API: the status is in 200..299.
ResponseOk(resp) == resp.status >= 200 /\ resp.status <= 299

\* Errors.  kind "api" is new Error(`Dashboard API error: ${status} ${statusText}`)
\* (dashboardClient.ts:87, 159); "network" is a rejection of fetch; "abort" is the
\* rejection of fetch after controller.abort(); "json" is a rejection of
\* response.json().
NoError == [kind |-> "none", status |-> 0, statusText |-> ""]
NetworkError == [kind |-> "network", status |-> 0, statusText |-> ""]
AbortError == [kind |-> "abort", status |-> 0, statusText |-> ""]
JsonError == [kind |-> "json", status |-> 0, statusText |-> ""]
DashboardApiError(resp) ==
    [kind |-> "api", status |-> resp.status, statusText |-> resp.statusText]

\* One finished attempt, as the transport saw it.
Outcome(kind, resp, doc) ==
    [kind |-> kind, status |-> resp.status, statusText |-> resp.statusText, doc |-> doc]
NoResponse == [status |-> 0, statusText |-> ""]

\* const delay = baseDelay * Math.pow(2, attempt)   (dashboardClient.ts:333)
\* Faulty variant: linear instead of exponential backoff.
retryDelay_linear(n) == baseDelay * (n + 1)

retryDelay(n) == baseDelay * 2^n

InitReq ==
    /\ reqOp = "none"
    /\ reqPc = "idle"
    /\ attempt = 0
    /\ fetchCalls = 0
    /\ abortTimer = [armed |-> FALSE, ms |-> 0]
    /\ delays = <<>>
    /\ outcomes = <<>>
    /\ lastError = NoError
    /\ reqResult = "none"

\* operation(): the attempt body up to its first await: the abort timer is set
\* and fetch() is called (dashboardClient.ts:70-82, 145-154).
StartAttempt ==
    /\ fetchCalls' = fetchCalls + 1
    /\ abortTimer' = [armed |-> TRUE, ms |-> RequestTimeoutMs]
    /\ reqPc' = "fetching"

\* retryRequest called: attempt = 0, first operation().
StartRequest(op) ==
    /\ reqPc = "idle"
    /\ reqOp' = op
    /\ attempt' = 0
    /\ StartAttempt
    /\ UNCHANGED <<delays, outcomes, lastError, reqResult>>

\* The catch block of retryRequest (dashboardClient.ts:324-336), entered with the
\* error the attempt threw; the attempt body has cleared its timer
\* (dashboardClient.ts:84, 90, 156, 165) or the timer has fired.
\* Faulty variant: the first failure is rethrown, nothing is retried.
AttemptFails_noRetry(err, outcome) ==
    /\ lastError' = err
    /\ outcomes' = Append(outcomes, outcome)
    /\ abortTimer' = [armed |-> FALSE, ms |-> 0]
    /\ reqPc' = "rejected"
    /\ UNCHANGED <<reqOp, attempt, fetchCalls, reqResult, delays>>

\* Faulty variant: the first error is kept and rethrown instead of the last.
AttemptFails_firstError(err, outcome) ==
    /\ lastError' = IF lastError = NoError THEN err ELSE lastError
    /\ outcomes' = Append(outcomes, outcome)
    /\ abortTimer' = [armed |-> FALSE, ms |-> 0]
    /\ IF attempt = maxRetries
       THEN /\ reqPc' = "rejected"
            /\ UNCHANGED delays
       ELSE /\ delays' = Append(delays, retryDelay(attempt))
            /\ reqPc' = "backoff"
    /\ UNCHANGED <<reqOp, attempt, fetchCalls, reqResult>>

AttemptFails(err, outcome) ==
    /\ lastError' = err
    /\ outcomes' = Append(outcomes, outcome)
    /\ abortTimer' = [armed |-> FALSE, ms |-> 0]
    /\ IF attempt = maxRetries
       THEN /\ reqPc' = "rejected"
            /\ UNCHANGED delays
       ELSE /\ delays' = Append(delays, retryDelay(attempt))
            /\ reqPc' = "backoff"
    /\ UNCHANGED <<reqOp, attempt, fetchCalls, reqResult>>

\* The operation returned: retryRequest returns its value (dashboardClient.ts:323).
AttemptSucceeds(outcome, value) ==
    /\ outcomes' = Append(outcomes, outcome)
    /\ abortTimer' = [armed |-> FALSE, ms |-> 0]
    /\ reqPc' = "resolved"
    /\ reqResult' = value
    /\ UNCHANGED <<reqOp, attempt, fetchCalls, delays, lastError>>

\* fetch() resolves with a response (dashboardClient.ts:84-88, 156-163).
FetchResolves(resp) ==
    /\ Quiet /\ reqPc = "fetching"
    /\ IF ~ResponseOk(resp)
       THEN AttemptFails(DashboardApiError(resp), Outcome("api", resp, ""))
       ELSE IF reqOp = "post"
            THEN AttemptSucceeds(Outcome("ok", resp, ""), "undefined")
            ELSE /\ reqPc' = "reading"
                 /\ abortTimer' = [armed |-> FALSE, ms |-> 0]
                 /\ UNCHANGED <<reqOp, attempt, fetchCalls, delays, outcomes,
                                lastError, reqResult>>
    /\ UNCHANGED <<subVars, wrapVars>>

\* fetch() rejects: network error (dashboardClient.ts:89-92, 164-167).
FetchRejects ==
    /\ Quiet /\ reqPc = "fetching"
    /\ AttemptFails(NetworkError, Outcome("network", NoResponse, ""))
    /\ UNCHANGED <<subVars, wrapVars>>

\* Faulty variant: an aborted attempt is rethrown without retry.
AbortTimerFires_noRetry ==
    /\ Quiet /\ reqPc = "fetching" /\ abortTimer.armed
    /\ AttemptFails_noRetry(AbortError, Outcome("abort", NoResponse, ""))
    /\ UNCHANGED <<subVars, wrapVars>>

\* The 5 s timer of the attempt fires while fetch() is pending: controller.abort()
\* makes fetch() reject (dashboardClient.ts:71, 146).
AbortTimerFires ==
    /\ Quiet /\ reqPc = "fetching" /\ abortTimer.armed
    /\ AttemptFails(AbortError, Outcome("abort", NoResponse, ""))
    /\ UNCHANGED <<subVars, wrapVars>>

\* Faulty variant: the parsed document is not returned.
JsonResolves_noReturn(doc) ==
    /\ Quiet /\ reqPc = "reading"
    /\ AttemptSucceeds(Outcome("ok", [status |-> 200, statusText |-> "OK"], doc), "undefined")
    /\ UNCHANGED <<subVars, wrapVars>>

\* response.json() of getConfig resolves with the document (dashboardClient.ts:162-163).
JsonResolves(doc) ==
    /\ Quiet /\ reqPc = "reading"
    /\ AttemptSucceeds(Outcome("ok", [status |-> 200, statusText |-> "OK"], doc), doc)
    /\ UNCHANGED <<subVars, wrapVars>>

\* response.json() rejects (the body is not JSON): thrown inside the try.
JsonRejects ==
    /\ Quiet /\ reqPc = "reading"
    /\ AttemptFails(JsonError, Outcome("json", NoResponse, ""))
    /\ UNCHANGED <<subVars, wrapVars>>

\* The backoff timer fires: next iteration of the loop (dashboardClient.ts:321, 335).
BackoffElapsed ==
    /\ Quiet /\ reqPc = "backoff"
    /\ attempt' = attempt + 1
    /\ StartAttempt
    /\ UNCHANGED <<reqOp, delays, outcomes, lastError, reqResult>>
    /\ UNCHANGED <<subVars, wrapVars>>

\* The application calls client.postReconciliation(log) / client.getConfig().
CallPostReconciliation ==
    /\ StartRequest("post")
    /\ UNCHANGED <<subVars, wrapVars>>

CallGetConfig ==
    /\ StartRequest("getConfig")
    /\ UNCHANGED <<subVars, wrapVars>>

NextRetry ==
    \/ CallPostReconciliation
    \/ CallGetConfig
    \/ \E resp \in Responses : FetchResolves(resp)
    \/ FetchRejects
    \/ AbortTimerFires
    \/ \E doc \in Docs : JsonResolves(doc)
    \/ JsonRejects
    \/ BackoffElapsed

(***************************************************************************)
(* LLMCreditSDK configuration (sdk.ts with dashboard sync: 52-71, 225-286). *)
(*                                                                         *)
(* A configuration is a tree of JavaScript objects: the models map, one    *)
(* object per model, its features map, one object per feature.  They live  *)
(* in heap and are named by their index, so that two configurations can    *)
(* share an object, as { ...this.config } and { ...defaultConfig.models }  *)
(* make them do.  The top-level object is a record whose models field is   *)
(* the index of the models map.                                            *)
(*                                                                         *)
(* The numbers of a configuration are written as whole numbers: a cost per *)
(* 1000 tokens in 1/100000 dollar (0.03 is 3000, 0.00025 is 25), a margin  *)
(* in tenths (2.0 is 20); credit_per_dollar is a whole number, or Absent   *)
(* in a configuration that has none.  Arithmetic turns them into the       *)
(* doubles the literals denote (PriceOf, MarginOf, RateOf).                *)
(***************************************************************************)
Engines == {1, 2}
ModelNames ==
    {"openai:gpt-4", "openai:gpt-4-turbo", "openai:gpt-3.5-turbo",
     "anthropic:claude-3-opus", "anthropic:claude-3-sonnet", "anthropic:claude-3-haiku",
     "together:llama3-8b", "together:llama3-70b", "cohere:command",
     "custom:model", "custom:unknown"}
ModelOrder ==
    <<"openai:gpt-4", "openai:gpt-4-turbo", "openai:gpt-3.5-turbo",
      "anthropic:claude-3-opus", "anthropic:claude-3-sonnet", "anthropic:claude-3-haiku",
      "together:llama3-8b", "together:llama3-70b", "cohere:command",
      "custom:model", "custom:unknown">>
FeatureNames == {"chat", "summarize", "generate_code", "translate", "completion"}
\* The value of a property: missing (undefined), a number, or an object.
Absent == [t |-> "absent", v |-> 0]
Num(n) == [t |-> "num", v |-> n]
Ref(i) == [t |-> "ref", v |-> i]

\* An object is the function from the names of its own properties to their
\* values; a property it has not reads as undefined.
EmptyObject == [k \in {} |-> Absent]
Get(o, k) == IF k \in DOMAIN o THEN o[k] ELSE Absent
Put(o, k, v) == [x \in DOMAIN o \cup {k} |-> IF x = k THEN v ELSE o[x]]
Delete(o, k) == [x \in DOMAIN o \ {k} |-> o[x]]

\* { ...a, ...b }
\* Faulty variant: the properties of a are dropped.
Spread_rightOnly(a, b) == b

Spread(a, b) == [k \in DOMAIN a \cup DOMAIN b |-> IF k \in DOMAIN b THEN b[k] ELSE a[k]]

\* a ?? b
Coalesce(a, b) == IF a = Absent THEN b ELSE a

\* ---- object literals and JSON.parse: every object of the tree is new.
RECURSIVE FeatureObjects(_)
FeatureObjects(feats) ==
    IF feats = <<>> THEN <<>>
    ELSE <<Put(EmptyObject, "margin", Num(feats[1].margin))>>
         \o FeatureObjects(Tail(feats))

FeaturesMap(feats, base) ==
    [k \in {feats[i].name : i \in 1..Len(feats)} |->
        Ref(base + (CHOOSE i \in 1..Len(feats) : feats[i].name = k))]

AllocModel(h, m) ==
    LET n == Len(m.features)
        modelObj == [k \in {"prompt_cost_per_1k", "completion_cost_per_1k", "features"} |->
                        IF k = "prompt_cost_per_1k" THEN Num(m.prompt_cost_per_1k)
                        ELSE IF k = "completion_cost_per_1k"
                        THEN Num(m.completion_cost_per_1k)
                        ELSE Ref(Len(h) + n + 1)]
    IN  h \o FeatureObjects(m.features) \o <<FeaturesMap(m.features, Len(h))>>
          \o <<modelObj>>

RECURSIVE AllocModels(_, _, _)
AllocModels(h, models, map) ==
    IF models = <<>> THEN Append(h, map)
    ELSE LET h1 == AllocModel(h, models[1])
         IN  AllocModels(h1, Tail(models), Put(map, models[1].name, Ref(Len(h1))))

\* An SDKConfig written as a literal or parsed from JSON; a credit_per_dollar
\* the literal does not write reads as undefined.
NewConfig(h, lit) ==
    LET h1 == AllocModels(h, lit.models, EmptyObject)
    IN  [heap |-> h1,
         config |-> [default_margin |-> lit.default_margin,
                     credit_per_dollar |-> IF "credit_per_dollar" \in DOMAIN lit
                                           THEN Num(lit.credit_per_dollar) ELSE Absent,
                     models |-> Len(h1)]]

\* A model entry of a customConfig literal: a price may be missing, and so may
\* the features map.
AllocPartialModel(h, m) ==
    LET n == Len(m.features)
        written == [prompt_cost_per_1k |-> m.prompt_cost_per_1k,
                    completion_cost_per_1k |-> m.completion_cost_per_1k,
                    features |-> IF m.hasFeatures THEN Ref(Len(h) + n + 1) ELSE Absent]
        modelObj == [k \in {x \in DOMAIN written : written[x] # Absent} |-> written[k]]
    IN  IF m.hasFeatures
        THEN h \o FeatureObjects(m.features) \o <<FeaturesMap(m.features, Len(h))>>
               \o <<modelObj>>
        ELSE Append(h, modelObj)

RECURSIVE AllocPartialModels(_, _, _)
AllocPartialModels(h, models, map) ==
    IF models = <<>> THEN Append(h, map)
    ELSE LET h1 == AllocPartialModel(h, models[1])
         IN  AllocPartialModels(h1, Tail(models),
                                Put(map, models[1].name, Ref(Len(h1))))

\* A Partial<SDKConfig> written as a literal: any field may be missing.
NewPartialConfig(h, lit) ==
    LET h1 == IF lit.hasModels THEN AllocPartialModels(h, lit.models, EmptyObject) ELSE h
    IN  [heap |-> h1,
         config |-> [default_margin |-> lit.default_margin,
                     credit_per_dollar |-> lit.credit_per_dollar,
                     models |-> IF lit.hasModels THEN Ref(Len(h1)) ELSE Absent]]

\* DEFAULT_CONFIG (config.ts): it has no credit_per_dollar.
DEFAULT_CONFIG ==
    [default_margin |-> 15,
     models |-> <<
        [name |-> "openai:gpt-4", prompt_cost_per_1k |-> 3000,
         completion_cost_per_1k |-> 6000,
         features |-> <<[name |-> "chat", margin |-> 20],
                        [name |-> "summarize", margin |-> 18],
                        [name |-> "generate_code", margin |-> 22],
                        [name |-> "translate", margin |-> 16]>>],
        [name |-> "openai:gpt-4-turbo", prompt_cost_per_1k |-> 1000,
         completion_cost_per_1k |-> 3000,
         features |-> <<[name |-> "chat", margin |-> 18],
                        [name |-> "summarize", margin |-> 16],
                        [name |-> "generate_code", margin |-> 20]>>],
        [name |-> "openai:gpt-3.5-turbo", prompt_cost_per_1k |-> 100,
         completion_cost_per_1k |-> 200,
         features |-> <<[name |-> "chat", margin |-> 15],
                        [name |-> "summarize", margin |-> 14],
                        [name |-> "generate_code", margin |-> 16]>>],
        [name |-> "anthropic:claude-3-opus", prompt_cost_per_1k |-> 1500,
         completion_cost_per_1k |-> 7500,
         features |-> <<[name |-> "chat", margin |-> 20],
                        [name |-> "summarize", margin |-> 18],
                        [name |-> "generate_code", margin |-> 22]>>],
        [name |-> "anthropic:claude-3-sonnet", prompt_cost_per_1k |-> 300,
         completion_cost_per_1k |-> 1500,
         features |-> <<[name |-> "chat", margin |-> 18],
                        [name |-> "summarize", margin |-> 16]>>],
        [name |-> "anthropic:claude-3-haiku", prompt_cost_per_1k |-> 25,
         completion_cost_per_1k |-> 125,
         features |-> <<[name |-> "chat", margin |-> 14],
                        [name |-> "summarize", margin |-> 13]>>],
        [name |-> "together:llama3-8b", prompt_cost_per_1k |-> 20,
         completion_cost_per_1k |-> 20,
         features |-> <<[name |-> "chat", margin |-> 15],
                        [name |-> "summarize", margin |-> 14]>>],
        [name |-> "together:llama3-70b", prompt_cost_per_1k |-> 90,
         completion_cost_per_1k |-> 90,
         features |-> <<[name |-> "chat", margin |-> 16],
                        [name |-> "summarize", margin |-> 15],
                        [name |-> "generate_code", margin |-> 18]>>],
        [name |-> "cohere:command", prompt_cost_per_1k |-> 100,
         completion_cost_per_1k |-> 200,
         features |-> <<[name |-> "chat", margin |-> 15],
                        [name |-> "summarize", margin |-> 14]>>] >>]

\* The customConfig arguments of the constructor that the model tries.
CustomConfigs == {"none", "perDollar"}

\* More of them, for the pricing and merge laws: default_margin 0 (sdk tests:
\* 470-483), a model entry with one price only beside a new model without
\* features (485-500, 20-40), both prices and a new feature of a default model
\* beside a feature margin of 0 and with a credit_per_dollar of 1000 (42-62),
\* a new model with one price only.
PricingConfigs == CustomConfigs \cup {"zeroMargin", "partial", "merged", "onePrice"}

CustomConfig(c) ==
    CASE c = "none" ->
           [default_margin |-> Absent, credit_per_dollar |-> Absent,
            hasModels |-> FALSE, models |-> <<>>]
      [] c = "perDollar" ->
           [default_margin |-> Absent, credit_per_dollar |-> Num(1),
            hasModels |-> TRUE,
            models |-> <<
               [name |-> "openai:gpt-3.5-turbo", prompt_cost_per_1k |-> Num(100),
                completion_cost_per_1k |-> Num(200), hasFeatures |-> TRUE,
                features |-> <<[name |-> "completion", margin |-> 14]>>] >>]
      [] c = "zeroMargin" ->
           [default_margin |-> Num(0), credit_per_dollar |-> Absent,
            hasModels |-> FALSE, models |-> <<>>]
      [] c = "partial" ->
           [default_margin |-> Absent, credit_per_dollar |-> Absent,
            hasModels |-> TRUE,
            models |-> <<
               [name |-> "openai:gpt-4", prompt_cost_per_1k |-> Num(3500),
                completion_cost_per_1k |-> Absent, hasFeatures |-> FALSE,
                features |-> <<>>],
               [name |-> "custom:model", prompt_cost_per_1k |-> Num(1000),
                completion_cost_per_1k |-> Num(2000), hasFeatures |-> FALSE,
                features |-> <<>>] >>]
      [] c = "merged" ->
           [default_margin |-> Num(20), credit_per_dollar |-> Num(1000),
            hasModels |-> TRUE,
            models |-> <<
               [name |-> "openai:gpt-4", prompt_cost_per_1k |-> Num(3500),
                completion_cost_per_1k |-> Num(6500), hasFeatures |-> TRUE,
                features |-> <<[name |-> "completion", margin |-> 30]>>],
               [name |-> "openai:gpt-3.5-turbo", prompt_cost_per_1k |-> Absent,
                completion_cost_per_1k |-> Absent, hasFeatures |-> TRUE,
                features |-> <<[name |-> "chat", margin |-> 0]>>] >>]
      [] c = "onePrice" ->
           [default_margin |-> Absent, credit_per_dollar |-> Absent,
            hasModels |-> TRUE,
            models |-> <<
               [name |-> "custom:model", prompt_cost_per_1k |-> Num(1000),
                completion_cost_per_1k |-> Absent, hasFeatures |-> FALSE,
                features |-> <<>>] >>]

\* The configuration documents the dashboard sends.
DocConfig(doc) ==
    IF doc = "configA"
    THEN [default_margin |-> 30,
          credit_per_dollar |-> 500,
          models |-> <<
             [name |-> "openai:gpt-4", prompt_cost_per_1k |-> 3000,
              completion_cost_per_1k |-> 6000,
              features |-> <<[name |-> "chat", margin |-> 20]>>] >>]
    ELSE [default_margin |-> 15,
          credit_per_dollar |-> 1,
          models |-> <<
             [name |-> "openai:gpt-4", prompt_cost_per_1k |-> 1000,
              completion_cost_per_1k |-> 3000,
              features |-> <<[name |-> "chat", margin |-> 18]>>],
             [name |-> "openai:gpt-3.5-turbo", prompt_cost_per_1k |-> 100,
              completion_cost_per_1k |-> 200,
              features |-> <<[name |-> "chat", margin |-> 15]>>] >>]

(***************************************************************************)
(* mergeConfigs (sdk.ts with dashboard sync: 250-278).  The result has a   *)
(* new models map; a model of the default that the custom configuration    *)
(* does not name is the default's own object.                              *)
(***************************************************************************)
RECURSIVE MergeModels(_, _, _, _)
MergeModels(h, resultMap, customMap, names) ==
    IF names = <<>> THEN h
    ELSE LET modelName == Head(names)
             modelConfig == Get(customMap, modelName)
         IN  IF modelConfig = Absent
             THEN MergeModels(h, resultMap, customMap, Tail(names))
             ELSE IF Get(h[resultMap], modelName) # Absent
             THEN LET old == h[h[resultMap][modelName].v]
                      new == h[modelConfig.v]
                      oldF == IF Get(old, "features") = Absent THEN EmptyObject
                              ELSE h[old["features"].v]
                      newF == IF Get(new, "features") = Absent THEN EmptyObject
                              ELSE h[new["features"].v]
                      h1 == Append(h, Spread(oldF, newF))
                      h2 == Append(h1, Put(Spread(old, new), "features", Ref(Len(h) + 1)))
                  IN  MergeModels([h2 EXCEPT ![resultMap] =
                                      Put(@, modelName, Ref(Len(h) + 2))],
                                  resultMap, customMap, Tail(names))
             ELSE MergeModels([h EXCEPT ![resultMap] = Put(@, modelName, modelConfig)],
                              resultMap, customMap, Tail(names))

\* Faulty variant: the models map starts empty, without the default's models.
mergeConfigs_customOnly(h, defaultConfig, customConfig) ==
    LET h1 == Append(h, EmptyObject)
        result == Len(h1)
        h2 == IF customConfig.models = Absent THEN h1
              ELSE MergeModels(h1, result, h1[customConfig.models.v], ModelOrder)
    IN  [heap |-> h2,
         config |-> [default_margin |-> Coalesce(customConfig.default_margin,
                                                 Num(defaultConfig.default_margin)).v,
                     credit_per_dollar |-> Coalesce(customConfig.credit_per_dollar,
                                                    defaultConfig.credit_per_dollar),
                     models |-> result]]

\* Faulty variant: the models of the custom configuration are merged into the
\* models map of the default itself.
mergeConfigs_inPlace(h, defaultConfig, customConfig) ==
    LET result == defaultConfig.models
        h2 == IF customConfig.models = Absent THEN h
              ELSE MergeModels(h, result, h[customConfig.models.v], ModelOrder)
    IN  [heap |-> h2,
         config |-> [default_margin |-> Coalesce(customConfig.default_margin,
                                                 Num(defaultConfig.default_margin)).v,
                     credit_per_dollar |-> Coalesce(customConfig.credit_per_dollar,
                                                    defaultConfig.credit_per_dollar),
                     models |-> result]]

mergeConfigs(h, defaultConfig, customConfig) ==
    LET h1 == Append(h, h[defaultConfig.models])
        result == Len(h1)
        h2 == IF customConfig.models = Absent THEN h1
              ELSE MergeModels(h1, result, h1[customConfig.models.v], ModelOrder)
    IN  [heap |-> h2,
         config |-> [default_margin |-> Coalesce(customConfig.default_margin,
                                                 Num(defaultConfig.default_margin)).v,
                     credit_per_dollar |-> Coalesce(customConfig.credit_per_dollar,
                                                    defaultConfig.credit_per_dollar),
                     models |-> result]]

\* new LLMCreditSDK(customConfig) on heap h, where DEFAULT_CONFIG is d.
Construct(h, d, c) ==
    LET arg == NewPartialConfig(h, CustomConfig(c))
    IN  mergeConfigs(arg.heap, d, arg.config)

\* The module is loaded, then engine 1 is made with customConfig c and engine 2
\* with none.
Loaded == NewConfig(<<>>, DEFAULT_CONFIG)
Engine1(c) == Construct(Loaded.heap, Loaded.config, c)
Engine2(c) == Construct(Engine1(c).heap, Loaded.config, "none")

(***************************************************************************)
(* JavaScript numbers.  The amounts of estimateCredits and reconcile are   *)
(* IEEE 754 doubles, and what they return is what toFixed(6) makes of a    *)
(* double, so the arithmetic is done on doubles: a finite one is its sign  *)
(* s, a mantissa m of 53 bits and an exponent e, with the value            *)
(* s * m * 2^e, and zero has the empty mantissa.  A mantissa is a natural  *)
(* number written in base 2^15, lowest limb first, because the products    *)
(* and quotients of two mantissas do not fit a machine integer.            *)
(***************************************************************************)
Base == 2 ^ 15

Limb(a, i) == IF i <= Len(a) THEN a[i] ELSE 0

RECURSIVE BTrim(_)
BTrim(a) == IF a # <<>> /\ a[Len(a)] = 0 THEN BTrim(SubSeq(a, 1, Len(a) - 1)) ELSE a

BFromInt(n) == BTrim(<<n % Base, (n \div Base) % Base, n \div (Base * Base)>>)

RECURSIVE BToInt(_)
BToInt(a) == IF a = <<>> THEN 0 ELSE a[1] + Base * BToInt(Tail(a))

RECURSIVE BAddFrom(_, _, _, _)
BAddFrom(a, b, i, c) ==
    IF i > Len(a) /\ i > Len(b)
    THEN IF c = 0 THEN <<>> ELSE <<c>>
    ELSE <<(Limb(a, i) + Limb(b, i) + c) % Base>>
         \o BAddFrom(a, b, i + 1, (Limb(a, i) + Limb(b, i) + c) \div Base)

BAdd(a, b) == BAddFrom(a, b, 1, 0)

\* a - b for a >= b.
RECURSIVE BSubFrom(_, _, _, _)
BSubFrom(a, b, i, br) ==
    IF i > Len(a)
    THEN <<>>
    ELSE <<(Limb(a, i) - Limb(b, i) - br) % Base>>
         \o BSubFrom(a, b, i + 1, IF Limb(a, i) - Limb(b, i) - br < 0 THEN 1 ELSE 0)

BSub(a, b) == BTrim(BSubFrom(a, b, 1, 0))

RECURSIVE BCmpFrom(_, _, _)
BCmpFrom(a, b, i) ==
    IF i = 0 THEN 0
    ELSE IF a[i] > b[i] THEN 1
    ELSE IF a[i] < b[i] THEN -1
    ELSE BCmpFrom(a, b, i - 1)

BCmp(a, b) ==
    IF Len(a) > Len(b) THEN 1
    ELSE IF Len(a) < Len(b) THEN -1
    ELSE BCmpFrom(a, b, Len(a))

RECURSIVE BMulSmallFrom(_, _, _, _)
BMulSmallFrom(a, k, i, c) ==
    IF i > Len(a)
    THEN IF c = 0 THEN <<>> ELSE <<c>>
    ELSE <<(a[i] * k + c) % Base>> \o BMulSmallFrom(a, k, i + 1, (a[i] * k + c) \div Base)

\* a * k for a limb k.
BMulSmall(a, k) == IF k = 0 THEN <<>> ELSE BMulSmallFrom(a, k, 1, 0)

RECURSIVE BMul(_, _)
BMul(a, b) ==
    IF a = <<>> \/ b = <<>> THEN <<>>
    ELSE BAdd(BMulSmall(a, b[1]),
              IF Len(b) = 1 THEN <<>> ELSE <<0>> \o BMul(a, Tail(b)))

RECURSIVE BDivSmallFrom(_, _, _, _, _)
BDivSmallFrom(a, d, i, r, q) ==
    IF i = 0 THEN [q |-> BTrim(q), r |-> r]
    ELSE BDivSmallFrom(a, d, i - 1, (r * Base + a[i]) % d,
                       <<(r * Base + a[i]) \div d>> \o q)

\* Quotient and remainder of a by a limb d.
BDivSmall(a, d) == BDivSmallFrom(a, d, Len(a), 0, <<>>)

RECURSIVE IntBits(_)
IntBits(n) == IF n = 0 THEN 0 ELSE 1 + IntBits(n \div 2)

BitLength(a) == IF a = <<>> THEN 0 ELSE 15 * (Len(a) - 1) + IntBits(a[Len(a)])

\* a * 2^k.
BShl(a, k) ==
    IF a = <<>> THEN <<>>
    ELSE [i \in 1..(k \div 15) |-> 0] \o BMulSmall(a, 2 ^ (k % 15))

\* a \div 2^k, and whether a bit was shifted out: the limbs below the first
\* one kept, then the bits of res.r.
ShiftedOut(a, whole, res) ==
    [q |-> res.q,
     sticky |-> res.r # 0 \/ \E i \in 1..Len(a) : i <= whole /\ a[i] # 0]

BShr(a, k) ==
    ShiftedOut(a, k \div 15,
               BDivSmall(IF k \div 15 >= Len(a) THEN <<>>
                         ELSE SubSeq(a, k \div 15 + 1, Len(a)),
                         2 ^ (k % 15)))

NaN == [kind |-> "nan", s |-> 1, m |-> <<>>, e |-> 0]
Infinity(s) == [kind |-> "inf", s |-> s, m |-> <<>>, e |-> 0]
Zero(s) == [kind |-> "num", s |-> s, m |-> <<>>, e |-> 0]
isZero(x) == x.kind = "num" /\ x.m = <<>>

\* The double nearest to s * M * 2^E, a tie going to the even mantissa; sticky
\* says that the exact value is a little above M * 2^E.  A mantissa of more
\* than 53 bits is cut to 54 (sh), its last bit is the guard, and the 53 bits
\* left (m0) go up by one when the value is above the half, or on it with m0
\* odd; a mantissa that reaches 54 bits by that loses its last bit.
Carried(s, m1, E) ==
    IF BitLength(m1) = 54
    THEN [kind |-> "num", s |-> s, m |-> BDivSmall(m1, 2).q, e |-> E + 1]
    ELSE [kind |-> "num", s |-> s, m |-> m1, e |-> E]

RoundedUp(s, m0, guard, above, E) ==
    Carried(s, IF guard /\ (above \/ m0[1] % 2 = 1) THEN BAdd(m0, <<1>>) ELSE m0, E)

Halved(s, sh, E, sticky) ==
    RoundedUp(s, BDivSmall(sh.q, 2).q, sh.q[1] % 2 = 1, sticky \/ sh.sticky, E)

RoundBits(s, M, E, sticky, L) ==
    IF L = 0 THEN Zero(s)
    ELSE IF L <= 53
    THEN [kind |-> "num", s |-> s, m |-> BShl(M, 53 - L), e |-> E - (53 - L)]
    ELSE Halved(s, BShr(M, L - 54), E + (L - 53), sticky)

Round(s, M, E, sticky) == RoundBits(s, M, E, sticky, BitLength(M))

\* A whole number as a double.
FromInt(n) == Round(IF n >= 0 THEN 1 ELSE -1, BFromInt(IF n >= 0 THEN n ELSE -n), 0, FALSE)

Neg(x) == IF x.kind = "nan" THEN x ELSE [x EXCEPT !.s = -x.s]

\* x * y
Mul(x, y) ==
    IF x.kind = "nan" \/ y.kind = "nan" THEN NaN
    ELSE IF x.kind = "inf" \/ y.kind = "inf"
    THEN IF isZero(x) \/ isZero(y) THEN NaN ELSE Infinity(x.s * y.s)
    ELSE IF isZero(x) \/ isZero(y) THEN Zero(x.s * y.s)
    ELSE Round(x.s * y.s, BMul(x.m, y.m), x.e + y.e, FALSE)

\* The sum of sx * Mx * 2^low and sy * My * 2^low, c being BCmp(Mx, My).
AddAligned(sx, Mx, sy, My, low, c) ==
    IF sx # sy /\ c = 0 THEN Zero(1)
    ELSE Round(IF sx = sy \/ c > 0 THEN sx ELSE sy,
               IF sx = sy THEN BAdd(Mx, My)
               ELSE IF c > 0 THEN BSub(Mx, My) ELSE BSub(My, Mx),
               low, FALSE)

AddFrom(x, y, low) ==
    AddAligned(x.s, BShl(x.m, x.e - low), y.s, BShl(y.m, y.e - low), low,
               BCmp(BShl(x.m, x.e - low), BShl(y.m, y.e - low)))

\* x + y
Add(x, y) ==
    IF x.kind = "nan" \/ y.kind = "nan" THEN NaN
    ELSE IF x.kind = "inf"
    THEN IF y.kind = "inf" /\ y.s # x.s THEN NaN ELSE x
    ELSE IF y.kind = "inf" THEN y
    ELSE IF isZero(x)
    THEN IF isZero(y) THEN Zero(IF x.s = -1 /\ y.s = -1 THEN -1 ELSE 1) ELSE y
    ELSE IF isZero(y) THEN x
    ELSE AddFrom(x, y, IF x.e < y.e THEN x.e ELSE y.e)

\* x - y
Sub(x, y) == Add(x, Neg(y))

\* Long division of N by the four-limb divisor D, one limb of the quotient at
\* a time: the limb is guessed from the leading limbs of the remainder and
\* lowered until it fits.
RECURSIVE Correct(_, _, _)
Correct(D, R, q) == IF BCmp(BMulSmall(D, q), R) > 0 THEN Correct(D, R, q - 1) ELSE q

Guess(top, d) == IF top \div d > Base - 1 THEN Base - 1 ELSE top \div d

RECURSIVE DivDigits(_, _, _, _)
Subtracted(R1, D, q, k, digits) ==
    DivDigits(BSub(R1, BMulSmall(D, q)), D, k - 1, <<q>> \o digits)

DivDigits(R, D, k, digits) ==
    IF k = 0 THEN [q |-> BTrim(digits), sticky |-> R # <<>>]
    ELSE IF R = <<>> THEN DivDigits(R, D, k - 1, <<0>> \o digits)
    ELSE Subtracted(<<0>> \o R, D,
                    Correct(D, <<0>> \o R, Guess(Limb(R, 4) * Base + Limb(R, 3), D[4])),
                    k, digits)

QuotientOf(N, D) ==
    IF BCmp(N, D) >= 0 THEN DivDigits(BSub(N, D), D, 4, <<1>>)
    ELSE DivDigits(N, D, 4, <<0>>)

\* (mx * 2^60) \div my for two mantissas of 53 bits, and whether it is inexact.
Quotient(mx, my) == QuotientOf(BShl(mx, 7), BShl(my, 7))

RoundedQuotient(s, qt, E) == Round(s, qt.q, E, qt.sticky)

\* x / y
Div(x, y) ==
    IF x.kind = "nan" \/ y.kind = "nan" THEN NaN
    ELSE IF x.kind = "inf"
    THEN IF y.kind = "inf" THEN NaN ELSE Infinity(x.s * y.s)
    ELSE IF y.kind = "inf" THEN Zero(x.s * y.s)
    ELSE IF isZero(y)
    THEN IF isZero(x) THEN NaN ELSE Infinity(x.s * y.s)
    ELSE IF isZero(x) THEN Zero(x.s * y.s)
    ELSE RoundedQuotient(x.s * y.s, Quotient(x.m, y.m), x.e - y.e - 60)

\* The double a decimal literal denotes: the one nearest to n / scale.
Decimal(n, scale) == Div(FromInt(n), FromInt(scale))

(***************************************************************************)
(* A number that toFixed(6) has rounded is a whole number of millionths,   *)
(* or NaN, or an infinity, or the zero with a minus sign that              *)
(* Number("-0.000000") is.                                                 *)
(***************************************************************************)
Millionths(v) == [kind |-> "num", v |-> v, negativeZero |-> FALSE]
NegativeZero == [kind |-> "num", v |-> 0, negativeZero |-> TRUE]
NotANumber == [kind |-> "nan", v |-> 0, negativeZero |-> FALSE]
Infinite(s) == [kind |-> "inf", v |-> s, negativeZero |-> FALSE]

\* Number(x.toFixed(6)).  toFixed takes the sign off, then the whole number n
\* for which n / 10^6 - x is closest to zero, the larger n if there are two;
\* x is the exact value of the double, so a decimal tie is seldom one.
\* halves is the whole part of twice the millionths of x.
Signed(s, n) == IF n = 0 /\ s = -1 THEN NegativeZero ELSE Millionths(s * n)

NearestTo(s, halves) ==
    Signed(s, BToInt(BDivSmall(halves, 2).q) + (Limb(halves, 1) % 2))

InMillionths(s, N, e) ==
    NearestTo(s, IF e >= -1 THEN BShl(N, e + 1) ELSE BShr(N, -e - 1).q)

toFixed6(x) ==
    IF x.kind = "nan" THEN NotANumber
    ELSE IF x.kind = "inf" THEN Infinite(x.s)
    ELSE IF isZero(x) THEN Millionths(0)
    ELSE InMillionths(x.s, BMul(x.m, <<16960, 30>>), x.e)

\* The double a rounded number is.
Double(r) ==
    IF r.kind = "nan" THEN NaN
    ELSE IF r.kind = "inf" THEN Infinity(r.v)
    ELSE IF r.v = 0 THEN Zero(IF r.negativeZero THEN -1 ELSE 1)
    ELSE Decimal(r.v, 1000000)

(***************************************************************************)
(* Pricing (sdk.ts with dashboard sync: 78-156, 225-242).                  *)
(***************************************************************************)
\* A price read from a model object: a property that is not there reads as
\* undefined, which is NaN in arithmetic.
PriceOf(slot) == IF slot.t = "num" THEN Decimal(slot.v, 100000) ELSE NaN

\* A margin, given in tenths.
MarginOf(margin) == Decimal(margin, 10)

\* this.config.credit_per_dollar as it is read: undefined, which is NaN in
\* arithmetic, in a configuration that has none.
RateOf(slot) == IF slot.t = "num" THEN FromInt(slot.v) ELSE NaN

\* (tokens / 1000) * cost_per_1k.
TokenCost(tokens, costPer1k) ==
    Mul(Div(FromInt(tokens), FromInt(1000)), PriceOf(costPer1k))

\* The names of the properties every object inherits from Object.prototype
\* (one of them), and the value such a property reads as: a function, which is
\* truthy and has no prompt_cost_per_1k, completion_cost_per_1k or features.
ObjectPrototypeKeys == {"constructor"}
InheritedProperty == [t |-> "inherited", v |-> 0]

\* The object a value of the models map is.
ObjectAt(h, slot) == IF slot = InheritedProperty THEN EmptyObject ELSE h[slot.v]

\* getModelConfig: this.config.models[model], the property of the models map
\* or, when the map has none of that name, the one it inherits; undefined
\* means it throws.
getModelConfig(h, cfg, model) ==
    IF Get(h[cfg.models], model) # Absent THEN h[cfg.models][model]
    ELSE IF model \in ObjectPrototypeKeys THEN InheritedProperty
    ELSE Absent

\* getMarginForFeature: featureConfig?.margin || this.config.default_margin.
\* Faulty variant: ?? in place of ||, so that a margin of 0 is kept.
getMarginForFeature_nullish(h, cfg, modelConfig, feature) ==
    LET features == Get(modelConfig, "features")
        featureConfig == IF features = Absent THEN Absent ELSE Get(h[features.v], feature)
        margin == IF featureConfig = Absent THEN Absent
                  ELSE Get(h[featureConfig.v], "margin")
    IN  IF margin = Absent THEN cfg.default_margin ELSE margin.v

getMarginForFeature(h, cfg, modelConfig, feature) ==
    LET features == Get(modelConfig, "features")
        featureConfig == IF features = Absent THEN Absent ELSE Get(h[features.v], feature)
        margin == IF featureConfig = Absent THEN Absent
                  ELSE Get(h[featureConfig.v], "margin")
    IN  IF margin = Absent \/ margin.v = 0 THEN cfg.default_margin ELSE margin.v

\* The numbers a call is priced with: the token counts of the input, the two
\* prices of the model as they are read, the margin and credit_per_dollar.
Priced(promptTokens, completionTokens, modelConfig, margin, cfg) ==
    [promptTokens |-> promptTokens, completionTokens |-> completionTokens,
     prompt_cost_per_1k |-> Get(modelConfig, "prompt_cost_per_1k"),
     completion_cost_per_1k |-> Get(modelConfig, "completion_cost_per_1k"),
     margin |-> margin, credit_per_dollar |-> cfg.credit_per_dollar]

\* (promptTokens / 1000) * prompt_cost_per_1k + (completionTokens / 1000) *
\* completion_cost_per_1k: baseCost (lines 85-87), estimatedCost (128-130) and
\* actualCost (133-135).
BaseCost(p, promptTokens, completionTokens) ==
    Add(TokenCost(promptTokens, p.prompt_cost_per_1k),
        TokenCost(completionTokens, p.completion_cost_per_1k))

\* cost * margin * this.config.credit_per_dollar: estimatedCredits (lines 93-96)
\* and actualCredits (140-141).
CreditsFor(p, cost) == Mul(Mul(cost, MarginOf(p.margin)), RateOf(p.credit_per_dollar))

\* estimateCredits, lines 85-99: the amount it returns.
EstimatedAmount(p) ==
    toFixed6(CreditsFor(p, BaseCost(p, p.promptTokens, p.completionTokens)))

\* reconcile, lines 144-155: the deltas and the record returned.
ReconciledRecord(estimated, estimatedCost, actualTokensUsed, actualCost, actualCredits) ==
    [estimatedCredits |-> estimated,
     actualTokensUsed |-> actualTokensUsed,
     actualCost |-> toFixed6(actualCost),
     estimatedVsActualCreditDelta |-> toFixed6(Sub(actualCredits, Double(estimated))),
     costDelta |-> toFixed6(Sub(actualCost, estimatedCost)),
     marginDelta |-> toFixed6(Sub(Div(actualCredits, actualCost),
                                  Div(Double(estimated), estimatedCost)))]

\* reconcile, lines 139-141: the actual credits of the actual cost.
ReconciledAt(p, estimated, estimatedCost, actualTokensUsed, actualCost) ==
    ReconciledRecord(estimated, estimatedCost, actualTokensUsed, actualCost,
                     CreditsFor(p, actualCost))

\* reconcile, lines 127-155: the amounts it returns for the estimated amount and
\* the actual counts.
ReconciledAmounts(p, estimated, actualPromptTokens, actualCompletionTokens) ==
    ReconciledAt(p, estimated,
                 BaseCost(p, p.promptTokens, p.completionTokens),
                 actualPromptTokens + actualCompletionTokens,
                 BaseCost(p, actualPromptTokens, actualCompletionTokens))

\* An EstimateCreditsResult, or the error thrown in place of one.
Estimate(credits) == [error |-> "none", estimatedCredits |-> credits]
NoEstimate == [error |-> "UnknownModelError", estimatedCredits |-> Millionths(0)]

\* A ReconcileResult, or the error thrown in place of one.
NoRecord ==
    [estimatedCredits |-> Millionths(0), actualTokensUsed |-> 0,
     actualCost |-> Millionths(0), estimatedVsActualCreditDelta |-> Millionths(0),
     costDelta |-> Millionths(0), marginDelta |-> Millionths(0)]

NoReconciliation == [error |-> "UnknownModelError", record |-> NoRecord]

(***************************************************************************)
(* The inputs of the calls the model makes on an engine.                   *)
(***************************************************************************)
\* The EstimateCreditsInput / WrapCallInput values the model tries.
CallInputs ==
    {[model |-> "openai:gpt-4", feature |-> "chat",
      promptTokens |-> 100, completionTokens |-> 200],
     [model |-> "openai:gpt-4", feature |-> "completion",
      promptTokens |-> 150, completionTokens |-> 350],
     [model |-> "openai:gpt-3.5-turbo", feature |-> "chat",
      promptTokens |-> 1, completionTokens |-> 1],
     [model |-> "custom:unknown", feature |-> "chat",
      promptTokens |-> 100, completionTokens |-> 200]}

\* What callFunction() may resolve with, and the usage an extractor reads in it.
LLMResponses == {"responseA", "responseB"}

TokenUsage(response) ==
    IF response = "responseA"
    THEN [promptTokens |-> 110, completionTokens |-> 190]
    ELSE [promptTokens |-> 2, completionTokens |-> 0]

ReconcileInput(input, usage) ==
    [model |-> input.model, feature |-> input.feature,
     promptTokens |-> input.promptTokens, completionTokens |-> input.completionTokens,
     actualPromptTokens |-> usage.promptTokens,
     actualCompletionTokens |-> usage.completionTokens]

EstimatedUsage(input) ==
    [promptTokens |-> input.promptTokens, completionTokens |-> input.completionTokens]

ReconcileInputs ==
    UNION {{ReconcileInput(i, u) : u \in {TokenUsage(r) : r \in LLMResponses}
                                          \cup {EstimatedUsage(i)}} : i \in CallInputs}

\* The model identifiers looked up: some of the configurations, one that no
\* configuration has, and a name every object inherits.
LookupNames ==
    {"openai:gpt-4", "openai:gpt-3.5-turbo", "anthropic:claude-3-haiku", "custom:model",
     "custom:unknown"} \cup ObjectPrototypeKeys

LookupInputs ==
    {[model |-> m, feature |-> "chat", promptTokens |-> 100, completionTokens |-> 200] :
        m \in LookupNames}

(***************************************************************************)
(* The amounts of the calls above under the configurations an engine is    *)
(* constructed with or receives are worked out once and looked up after;   *)
(* any other call is worked out when it is made.                           *)
(***************************************************************************)
KnownConfigs ==
    {Engine1(c) : c \in CustomConfigs} \cup {Engine2(c) : c \in CustomConfigs}
        \cup {NewConfig(<<>>, DocConfig(doc)) : doc \in Docs}

\* The numbers input is priced with under the configuration cfg of h.
PricedBy(h, cfg, input) ==
    LET modelConfig == ObjectAt(h, getModelConfig(h, cfg, input.model))
    IN  Priced(input.promptTokens, input.completionTokens, modelConfig,
               getMarginForFeature(h, cfg, modelConfig, input.feature), cfg)

KnownCalls(inputs) ==
    {x \in KnownConfigs \X inputs :
        getModelConfig(x[1].heap, x[1].config, x[2].model) # Absent}

KnownEstimated ==
    [p \in {PricedBy(x[1].heap, x[1].config, x[2]) :
               x \in KnownCalls(CallInputs \cup LookupInputs)}
        |-> EstimatedAmount(p)]

\* table[k] where the table has it, and otherwise the amount worked out.
Known(table, k, amount) == IF k \in DOMAIN table THEN table[k] ELSE amount

EstimatedCredits(p) == Known(KnownEstimated, p, EstimatedAmount(p))

ReconciledKey(estimates, p, input) ==
    <<p, estimates[p], input.actualPromptTokens, input.actualCompletionTokens>>

KnownReconciled ==
    [k \in {ReconciledKey(KnownEstimated, PricedBy(x[1].heap, x[1].config, x[2]), x[2]) :
               x \in KnownCalls(ReconcileInputs \cup
                                {ReconcileInput(i, EstimatedUsage(i)) : i \in LookupInputs})}
        |-> ReconciledAmounts(k[1], k[2], k[3], k[4])]

ReconcileResult(p, estimated, actualPromptTokens, actualCompletionTokens) ==
    Known(KnownReconciled, <<p, estimated, actualPromptTokens, actualCompletionTokens>>,
          ReconciledAmounts(p, estimated, actualPromptTokens, actualCompletionTokens))

(***************************************************************************)
(* estimateCredits and reconcile.                                          *)
(***************************************************************************)
\* estimateCredits, lines 86-99, for the model configuration found.
estimateCreditsWith(h, cfg, input, modelConfig) ==
    Estimate(EstimatedCredits(
        Priced(input.promptTokens, input.completionTokens, modelConfig,
               getMarginForFeature(h, cfg, modelConfig, input.feature), cfg)))

estimateCredits(h, cfg, input) ==
    IF getModelConfig(h, cfg, input.model) = Absent THEN NoEstimate
    ELSE estimateCreditsWith(h, cfg, input,
                             ObjectAt(h, getModelConfig(h, cfg, input.model)))

\* Faulty variant: a division by a cost of zero is skipped and marginDelta is 0.
reconcile_guardedDivision(h, cfg, input) ==
    LET estimated == estimateCredits(h, cfg, input)
        slot == getModelConfig(h, cfg, input.model)
    IN  IF estimated.error # "none" \/ slot = Absent THEN NoReconciliation
        ELSE LET modelConfig == ObjectAt(h, slot)
                 margin == getMarginForFeature(h, cfg, modelConfig, input.feature)
                 record ==
                     ReconcileResult(Priced(input.promptTokens, input.completionTokens,
                                       modelConfig, margin, cfg),
                                estimated.estimatedCredits,
                                input.actualPromptTokens, input.actualCompletionTokens)
             IN  [error |-> "none",
                  record |-> IF record.estimatedCredits.kind = "num"
                                  /\ record.marginDelta.kind # "num"
                             THEN [record EXCEPT !.marginDelta = Millionths(0)]
                             ELSE record]

\* reconcile, lines 127-155, after its call of estimateCredits has returned
\* estimated or thrown.
reconcileAfter(h, cfg, input, estimated, modelConfig) ==
    IF estimated.error # "none" THEN NoReconciliation
    ELSE [error |-> "none",
          record |->
             ReconcileResult(Priced(input.promptTokens, input.completionTokens,
                                    modelConfig,
                                    getMarginForFeature(h, cfg, modelConfig, input.feature),
                                    cfg),
                             estimated.estimatedCredits,
                             input.actualPromptTokens, input.actualCompletionTokens)]

reconcile(h, cfg, input) ==
    reconcileAfter(h, cfg, input, estimateCredits(h, cfg, input),
                   ObjectAt(h, getModelConfig(h, cfg, input.model)))

\* What the message of the error of getModelConfig says: the model asked for
\* and Object.keys(this.config.models).
ModelNotFound(h, cfg, model) ==
    [model |-> model, available |-> DOMAIN h[cfg.models]]

NothingThrown == [model |-> "none", available |-> {}]

\* The error estimateCredits, reconcile and getAvailableFeatures throw for the
\* model, if they do.
ThrownFor(h, cfg, model) ==
    IF getModelConfig(h, cfg, model) = Absent THEN ModelNotFound(h, cfg, model)
    ELSE NothingThrown

\* getAvailableFeatures: Object.keys(modelConfig.features || {}).
getAvailableFeatures(h, cfg, model) ==
    LET slot == getModelConfig(h, cfg, model)
    IN  IF slot = Absent THEN [error |-> "UnknownModelError", features |-> {}]
        ELSE IF Get(ObjectAt(h, slot), "features") = Absent
        THEN [error |-> "none", features |-> {}]
        ELSE [error |-> "none", features |-> DOMAIN h[h[slot.v]["features"].v]]

\* getConfig: { ...this.config }, a new top-level object with the same models map.
getConfig(cfg) ==
    [default_margin |-> cfg.default_margin,
     credit_per_dollar |-> cfg.credit_per_dollar,
     models |-> cfg.models]

\* What a configuration says, all objects followed: what the application reads
\* when it inspects a value getConfig returned.  A price or a margin is the
\* number written, or Absent where the property or its object is not there.
ModelValue(h, slot) ==
    IF slot = Absent
    THEN [present |-> FALSE, prompt_cost_per_1k |-> Absent,
          completion_cost_per_1k |-> Absent,
          features |-> [f \in FeatureNames |-> Absent]]
    ELSE [present |-> TRUE,
          prompt_cost_per_1k |-> Get(h[slot.v], "prompt_cost_per_1k"),
          completion_cost_per_1k |-> Get(h[slot.v], "completion_cost_per_1k"),
          features |-> [f \in FeatureNames |->
                          LET features == Get(h[slot.v], "features")
                          IN  IF features = Absent \/ Get(h[features.v], f) = Absent
                              THEN Absent
                              ELSE Get(h[h[features.v][f].v], "margin")]]

ConfigValue(h, cfg) ==
    [default_margin |-> cfg.default_margin,
     credit_per_dollar |-> cfg.credit_per_dollar,
     models |-> [m \in ModelNames |-> ModelValue(h, Get(h[cfg.models], m))]]

(***************************************************************************)
(* Calls on an engine and the configUpdated handler.                       *)
(***************************************************************************)
NoInput == ReconcileInput([model |-> "custom:unknown", feature |-> "chat",
                           promptTokens |-> 0, completionTokens |-> 0],
                          [promptTokens |-> 0, completionTokens |-> 0])

NoConfig == [default_margin |-> 0, credit_per_dollar |-> Absent, models |-> NULL]

NoConfigValue ==
    [default_margin |-> 0, credit_per_dollar |-> Absent,
     models |-> [m \in ModelNames |-> ModelValue(<<>>, Absent)]]

NoEval ==
    [op |-> "none", engine |-> 0, doc |-> "none", input |-> NoInput,
     estimate |-> NoEstimate, reconciliation |-> NoReconciliation,
     features |-> [error |-> "none", features |-> {}], thrown |-> NothingThrown,
     value |-> NoConfigValue]

\* The configuration document in force on engine e: only engine 1 is synced.
DocInForce(e) == IF e = 1 THEN lastDoc ELSE "none"

InitEngine(customs) ==
    /\ custom \in customs
    /\ heap = Engine2(custom).heap
    /\ config = [e \in Engines |->
                    IF e = 1 THEN Engine1(custom).config ELSE Engine2(custom).config]
    /\ updates = 0
    /\ lastDoc = "none"
    /\ returned = [engine |-> 0, value |-> NoConfig]
    /\ lastEval = NoEval
    /\ mutations = 0

InitEng == InitEngine(CustomConfigs)

\* The handler of 'configUpdated' (sdk.ts with dashboard sync: 66-69), run by
\* the callback engine 1 gave to subscribeToConfigUpdates with a document the
\* client parsed: this.config = newConfig.  Any client that was given the
\* callback may call it, the one the engine holds as well as one it has
\* replaced or dropped, whose stream or poll nothing has stopped.
\* Faulty variant: only the models of the new configuration are taken.
ConfigUpdated_modelsOnly(doc) ==
    /\ callbackGiven
    /\ updates < MaxUpdates
    /\ LET new == NewConfig(heap, DocConfig(doc))
       IN  /\ heap' = new.heap
           /\ config' = [config EXCEPT ![1].models = new.config.models]
    /\ updates' = updates + 1
    /\ lastDoc' = doc
    /\ UNCHANGED <<custom, returned, lastEval, mutations>>
    /\ UNCHANGED <<subVars, reqVars>>
    /\ UNCHANGED <<dashboardSyncEnabled, dashboardClient, replacedClients, callbackGiven,
                   enableCalls, wrapPc, wrapError,
                   postPromise, postErrorsLogged, appRejections, lastSyncCall, callVars>>

\* Faulty variant: the new configuration is merged onto the one in force.
ConfigUpdated_merged(doc) ==
    /\ callbackGiven
    /\ updates < MaxUpdates
    /\ LET new == NewConfig(heap, DocConfig(doc))
           merged == mergeConfigs(new.heap, config[1],
                        [default_margin |-> Num(new.config.default_margin),
                         credit_per_dollar |-> new.config.credit_per_dollar,
                         models |-> Ref(new.config.models)])
       IN  /\ heap' = merged.heap
           /\ config' = [config EXCEPT ![1] = merged.config]
    /\ updates' = updates + 1
    /\ lastDoc' = doc
    /\ UNCHANGED <<custom, returned, lastEval, mutations>>
    /\ UNCHANGED <<subVars, reqVars>>
    /\ UNCHANGED <<dashboardSyncEnabled, dashboardClient, replacedClients, callbackGiven,
                   enableCalls, wrapPc, wrapError,
                   postPromise, postErrorsLogged, appRejections, lastSyncCall, callVars>>

ConfigUpdated(doc) ==
    /\ callbackGiven
    /\ updates < MaxUpdates
    /\ LET new == NewConfig(heap, DocConfig(doc))
       IN  /\ heap' = new.heap
           /\ config' = [config EXCEPT ![1] = new.config]
    /\ updates' = updates + 1
    /\ lastDoc' = doc
    /\ UNCHANGED <<custom, returned, lastEval, mutations>>
    /\ UNCHANGED <<subVars, reqVars>>
    /\ UNCHANGED <<dashboardSyncEnabled, dashboardClient, replacedClients, callbackGiven,
                   enableCalls, wrapPc, wrapError,
                   postPromise, postErrorsLogged, appRejections, lastSyncCall, callVars>>

\* The application calls sdk.estimateCredits(input) on engine e.
\* Faulty variant: the margin resolved is kept as the default margin.
EstimateCredits_keepsMargin(e, input) ==
    /\ lastEval' = [NoEval EXCEPT !.op = "estimateCredits", !.engine = e,
                                  !.doc = DocInForce(e),
                                  !.input = ReconcileInput(input, EstimatedUsage(input)),
                                  !.estimate = estimateCredits(heap, config[e], input),
                                  !.thrown = ThrownFor(heap, config[e], input.model)]
    /\ config' = IF getModelConfig(heap, config[e], input.model) = Absent THEN config
                 ELSE [config EXCEPT ![e].default_margin =
                          getMarginForFeature(heap, config[e],
                              ObjectAt(heap, getModelConfig(heap, config[e], input.model)),
                              input.feature)]
    /\ UNCHANGED <<heap, custom, updates, lastDoc, returned, mutations>>
    /\ UNCHANGED <<subVars, reqVars>>
    /\ UNCHANGED <<dashboardSyncEnabled, dashboardClient, replacedClients, callbackGiven,
                   enableCalls, wrapPc, wrapError,
                   postPromise, postErrorsLogged, appRejections, lastSyncCall, callVars>>

EstimateCredits(e, input) ==
    /\ lastEval' = [NoEval EXCEPT !.op = "estimateCredits", !.engine = e,
                                  !.doc = DocInForce(e),
                                  !.input = ReconcileInput(input, EstimatedUsage(input)),
                                  !.estimate = estimateCredits(heap, config[e], input),
                                  !.thrown = ThrownFor(heap, config[e], input.model)]
    /\ UNCHANGED <<heap, config, custom, updates, lastDoc, returned, mutations>>
    /\ UNCHANGED <<subVars, reqVars>>
    /\ UNCHANGED <<dashboardSyncEnabled, dashboardClient, replacedClients, callbackGiven,
                   enableCalls, wrapPc, wrapError,
                   postPromise, postErrorsLogged, appRejections, lastSyncCall, callVars>>

\* The application calls sdk.reconcile(input) on engine e.
Reconcile(e, input) ==
    /\ lastEval' = [NoEval EXCEPT !.op = "reconcile", !.engine = e,
                                  !.doc = DocInForce(e),
                                  !.input = input,
                                  !.reconciliation = reconcile(heap, config[e], input),
                                  !.thrown = ThrownFor(heap, config[e], input.model)]
    /\ UNCHANGED <<heap, config, custom, updates, lastDoc, returned, mutations>>
    /\ UNCHANGED <<subVars, reqVars>>
    /\ UNCHANGED <<dashboardSyncEnabled, dashboardClient, replacedClients, callbackGiven,
                   enableCalls, wrapPc, wrapError,
                   postPromise, postErrorsLogged, appRejections, lastSyncCall, callVars>>

\* The application calls sdk.getAvailableFeatures(model) on engine e.
GetAvailableFeatures(e, model) ==
    /\ lastEval' = [NoEval EXCEPT !.op = "getAvailableFeatures", !.engine = e,
                                  !.doc = DocInForce(e),
                                  !.input = [NoInput EXCEPT !.model = model],
                                  !.features = getAvailableFeatures(heap, config[e], model),
                                  !.thrown = ThrownFor(heap, config[e], model)]
    /\ UNCHANGED <<heap, config, custom, updates, lastDoc, returned, mutations>>
    /\ UNCHANGED <<subVars, reqVars>>
    /\ UNCHANGED <<dashboardSyncEnabled, dashboardClient, replacedClients, callbackGiven,
                   enableCalls, wrapPc, wrapError,
                   postPromise, postErrorsLogged, appRejections, lastSyncCall, callVars>>

\* The application calls sdk.getConfig() on engine e and reads the result.
GetConfig(e) ==
    /\ returned' = [engine |-> e, value |-> getConfig(config[e])]
    /\ lastEval' = [NoEval EXCEPT !.op = "getConfig", !.engine = e,
                                  !.doc = DocInForce(e),
                                  !.value = ConfigValue(heap, getConfig(config[e]))]
    /\ UNCHANGED <<heap, config, custom, updates, lastDoc, mutations>>
    /\ UNCHANGED <<subVars, reqVars>>
    /\ UNCHANGED <<dashboardSyncEnabled, dashboardClient, replacedClients, callbackGiven,
                   enableCalls, wrapPc, wrapError,
                   postPromise, postErrorsLogged, appRejections, lastSyncCall, callVars>>

(***************************************************************************)
(* The application writes through the value getConfig returned to it.      *)
(***************************************************************************)
Held == returned.engine # 0 /\ mutations < MaxMutations

Written(h, r) ==
    /\ heap' = h
    /\ returned' = r
    /\ mutations' = mutations + 1
    /\ UNCHANGED <<config, custom, updates, lastDoc, lastEval>>
    /\ UNCHANGED <<subVars, reqVars>>
    /\ UNCHANGED <<dashboardSyncEnabled, dashboardClient, replacedClients, callbackGiven,
                   enableCalls, wrapPc, wrapError,
                   postPromise, postErrorsLogged, appRejections, lastSyncCall, callVars>>

\* returned.default_margin = 999 (or credit_per_dollar).
MutateTopLevel(field) ==
    /\ Held
    /\ Written(heap, [returned EXCEPT !.value[field] =
                          IF field = "credit_per_dollar" THEN Num(999) ELSE 999])

\* delete returned.models[m].
MutateModelsMap(m) ==
    /\ Held
    /\ Get(heap[returned.value.models], m) # Absent
    /\ Written([heap EXCEPT ![returned.value.models] = Delete(@, m)], returned)

\* returned.models[m].prompt_cost_per_1k = 0.05 (or completion_cost_per_1k).
MutateModel(m, field) ==
    /\ Held
    /\ Get(heap[returned.value.models], m) # Absent
    /\ Written([heap EXCEPT ![heap[returned.value.models][m].v] = Put(@, field, Num(5000))],
               returned)

\* returned.models[m].features[f].margin = 3.0.
MutateFeature(m, f) ==
    /\ Held
    /\ Get(heap[returned.value.models], m) # Absent
    /\ LET features == Get(heap[heap[returned.value.models][m].v], "features")
       IN  /\ features # Absent
           /\ Get(heap[features.v], f) # Absent
           /\ Written([heap EXCEPT ![heap[features.v][f].v] = Put(@, "margin", Num(30))],
                      returned)

(***************************************************************************)
(* LLMCreditSDK: dashboard sync switches and wrapCall                      *)
(* (sdk.ts with dashboard sync: 163-217, 318-345, 367-404).                *)
(***************************************************************************)
\* What the constructor of DashboardClient or subscribeToConfigUpdates may do
\* inside the try block of enableDashboardSync.
EnableFailures == {"none", "constructor", "subscribe"}

\* A DashboardClient just constructed, in place of the one the model followed.
NewClient == [Cur EXCEPT !.isSubscribed = FALSE, !.configSubscription = NULL,
                         !.pollingInterval = NULL, !.subscribeCalls = 0,
                         !.conns = <<>>, !.intervals = <<>>, !.reconnects = <<>>,
                         !.microtasks = <<>>, !.pollsInFlight = 0]

\* The client this.dashboardClient is about to be overwritten: nothing
\* unsubscribes it, before or after (sdk.ts with dashboard sync: 320).
Replaced == IF dashboardClient /\ isSubscribed THEN 1 ELSE 0

\* enableDashboardSync: a new DashboardClient replaces the one held, and is
\* subscribed.  The client fields of the model are those of the client the
\* engine holds.  An exception in the try block is caught and logged.
\* Faulty variant: there is no try/catch.
EnableDashboardSync_noCatch(fail) ==
    /\ enableCalls < MaxEnableCalls
    /\ RoomForConn(fail = "none" /\ wsAvailable)
    /\ enableCalls' = enableCalls + 1
    /\ IF fail = "constructor"
       THEN /\ lastSyncCall' = "enableThrew"
            /\ UNCHANGED <<dashboardClient, replacedClients, callbackGiven,
                           dashboardSyncEnabled, subVars>>
       ELSE IF fail = "subscribe"
       THEN /\ dashboardClient' = TRUE
            /\ replacedClients' = replacedClients + Replaced
            /\ dashboardSyncEnabled' = TRUE
            /\ lastSyncCall' = "enableThrew"
            /\ UNCHANGED callbackGiven
            /\ Becomes(NewClient)
       ELSE /\ dashboardClient' = TRUE
            /\ replacedClients' = replacedClients + Replaced
            /\ dashboardSyncEnabled' = TRUE
            /\ lastSyncCall' = "enabled"
            /\ callbackGiven' = TRUE
            /\ Becomes(subscribeToConfigUpdates([NewClient EXCEPT !.subscribeCalls = 1],
                                                wsAvailable))
    /\ UNCHANGED <<wrapPc, wrapError, postPromise, postErrorsLogged, appRejections>>
    /\ UNCHANGED <<callVars, engVars, reqVars>>

\* Faulty variant: enabling the sync puts DEFAULT_CONFIG in force.
EnableDashboardSync_resetsConfig(fail) ==
    /\ enableCalls < MaxEnableCalls
    /\ RoomForConn(fail = "none" /\ wsAvailable)
    /\ enableCalls' = enableCalls + 1
    /\ IF fail = "constructor"
       THEN /\ dashboardSyncEnabled' = FALSE
            /\ lastSyncCall' = "enableFailed"
            /\ UNCHANGED <<dashboardClient, replacedClients, callbackGiven, subVars>>
       ELSE IF fail = "subscribe"
       THEN /\ dashboardClient' = TRUE
            /\ replacedClients' = replacedClients + Replaced
            /\ dashboardSyncEnabled' = FALSE
            /\ lastSyncCall' = "enableFailed"
            /\ UNCHANGED callbackGiven
            /\ Becomes(NewClient)
       ELSE /\ dashboardClient' = TRUE
            /\ replacedClients' = replacedClients + Replaced
            /\ dashboardSyncEnabled' = TRUE
            /\ lastSyncCall' = "enabled"
            /\ callbackGiven' = TRUE
            /\ Becomes(subscribeToConfigUpdates([NewClient EXCEPT !.subscribeCalls = 1],
                                                wsAvailable))
    /\ config' = [config EXCEPT ![1] = Loaded.config]
    /\ UNCHANGED <<heap, custom, updates, lastDoc, returned, lastEval, mutations>>
    /\ UNCHANGED <<wrapPc, wrapError, postPromise, postErrorsLogged, appRejections>>
    /\ UNCHANGED <<callVars, reqVars>>

EnableDashboardSync(fail) ==
    /\ enableCalls < MaxEnableCalls
    /\ RoomForConn(fail = "none" /\ wsAvailable)
    /\ enableCalls' = enableCalls + 1
    /\ IF fail = "constructor"
       THEN /\ dashboardSyncEnabled' = FALSE
            /\ lastSyncCall' = "enableFailed"
            /\ UNCHANGED <<dashboardClient, replacedClients, callbackGiven, subVars>>
       ELSE IF fail = "subscribe"
       THEN /\ dashboardClient' = TRUE
            /\ replacedClients' = replacedClients + Replaced
            /\ dashboardSyncEnabled' = FALSE
            /\ lastSyncCall' = "enableFailed"
            /\ UNCHANGED callbackGiven
            /\ Becomes(NewClient)
       ELSE /\ dashboardClient' = TRUE
            /\ replacedClients' = replacedClients + Replaced
            /\ dashboardSyncEnabled' = TRUE
            /\ lastSyncCall' = "enabled"
            /\ callbackGiven' = TRUE
            /\ Becomes(subscribeToConfigUpdates([NewClient EXCEPT !.subscribeCalls = 1],
                                                wsAvailable))
    /\ UNCHANGED <<wrapPc, wrapError, postPromise, postErrorsLogged, appRejections>>
    /\ UNCHANGED <<callVars, engVars, reqVars>>

\* disableDashboardSync.
DisableDashboardSync ==
    /\ IF dashboardClient THEN Becomes(unsubscribe(Cur)) ELSE UNCHANGED subVars
    /\ dashboardClient' = FALSE
    /\ dashboardSyncEnabled' = FALSE
    /\ lastSyncCall' = "disabled"
    /\ UNCHANGED <<replacedClients, callbackGiven, enableCalls, wrapPc, wrapError, postPromise,
                   postErrorsLogged, appRejections>>
    /\ UNCHANGED <<callVars, engVars, reqVars>>

NoOutcome == [kind |-> "none", value |-> "none"]
NoResult == [response |-> "none", reconciliation |-> NoRecord]

\* The wrapCall() runs the application has in flight at the same time.
MaxCalls == 2
CallIds == 1..MaxCalls

\* A wrapCall() run that has not been made yet.
NoCall == [pc |-> "idle",
           arg |-> [model |-> "custom:unknown", feature |-> "chat",
                    promptTokens |-> 0, completionTokens |-> 0],
           locals |-> [model |-> "custom:unknown", feature |-> "chat",
                       promptTokens |-> 0, completionTokens |-> 0],
           outcome |-> NoOutcome, extractor |-> "notRun", error |-> "none",
           result |-> NoResult, post |-> "none", overlapped |-> FALSE]

\* No ReconciliationLog was given to the dashboard client.
NoLog == [input |-> NoInput, reconciliation |-> NoRecord, creditPerDollar |-> 0]

InitCall ==
    /\ wrapInput = NoInput
    /\ configAtCall = NoConfig
    /\ estimate = NoEstimate
    /\ steps = <<>>
    /\ invocations = 0
    /\ functionOutcome = NoOutcome
    /\ extractorOutcome = "notRun"
    /\ wrapResult = NoResult
    /\ calls = [c \in CallIds |-> NoCall]
    /\ postedLog = NoLog

\* wrapCall up to its await: estimateCredits throws for a model that is not
\* configured, otherwise callFunction() is called and awaited.
\* Faulty variant: callFunction() is called before the estimate is made.
WrapCall_invokesFirst(input) ==
    /\ wrapPc = "idle"
    /\ wrapInput' = ReconcileInput(input, EstimatedUsage(input))
    /\ configAtCall' = config[1]
    /\ estimate' = estimateCredits(heap, config[1], input)
    /\ steps' = <<"invoke", "estimate">>
    /\ invocations' = invocations + 1
    /\ IF estimate'.error = "none"
       THEN /\ wrapPc' = "invoking"
            /\ UNCHANGED wrapError
       ELSE /\ wrapPc' = "threw"
            /\ wrapError' = estimate'.error
    /\ UNCHANGED <<functionOutcome, extractorOutcome, wrapResult>>
    /\ UNCHANGED <<dashboardSyncEnabled, dashboardClient, replacedClients, callbackGiven,
                   enableCalls, postPromise,
                   postErrorsLogged, appRejections, lastSyncCall>>
    /\ UNCHANGED <<calls, postedLog, engVars, subVars, reqVars>>

WrapCall(input) ==
    /\ wrapPc = "idle"
    /\ wrapInput' = ReconcileInput(input, EstimatedUsage(input))
    /\ configAtCall' = config[1]
    /\ estimate' = estimateCredits(heap, config[1], input)
    /\ IF estimate'.error = "none"
       THEN /\ wrapPc' = "invoking"
            /\ steps' = <<"estimate", "invoke">>
            /\ invocations' = invocations + 1
            /\ UNCHANGED wrapError
       ELSE /\ wrapPc' = "threw"
            /\ wrapError' = estimate'.error
            /\ steps' = <<"estimate">>
            /\ UNCHANGED invocations
    /\ UNCHANGED <<functionOutcome, extractorOutcome, wrapResult>>
    /\ UNCHANGED <<dashboardSyncEnabled, dashboardClient, replacedClients, callbackGiven,
                   enableCalls, postPromise,
                   postErrorsLogged, appRejections, lastSyncCall>>
    /\ UNCHANGED <<calls, postedLog, engVars, subVars, reqVars>>

\* The errors callFunction() may reject with.
InvocationErrors == {"API Error", "Rate limited"}

\* callFunction() rejects: wrapCall rejects with the same error.
\* Faulty variant: the error is wrapped in an error of the SDK.
CallFunctionRejects_wrapped(error) ==
    /\ wrapPc = "invoking"
    /\ wrapPc' = "threw"
    /\ functionOutcome' = [kind |-> "rejected", value |-> error]
    /\ wrapError' = "WrapCallError"
    /\ UNCHANGED <<wrapInput, configAtCall, estimate, steps, invocations,
                   extractorOutcome, wrapResult>>
    /\ UNCHANGED <<dashboardSyncEnabled, dashboardClient, replacedClients, callbackGiven,
                   enableCalls, postPromise,
                   postErrorsLogged, appRejections, lastSyncCall>>
    /\ UNCHANGED <<calls, postedLog, engVars, subVars, reqVars>>

CallFunctionRejects(error) ==
    /\ wrapPc = "invoking"
    /\ wrapPc' = "threw"
    /\ functionOutcome' = [kind |-> "rejected", value |-> error]
    /\ wrapError' = error
    /\ UNCHANGED <<wrapInput, configAtCall, estimate, steps, invocations,
                   extractorOutcome, wrapResult>>
    /\ UNCHANGED <<dashboardSyncEnabled, dashboardClient, replacedClients, callbackGiven,
                   enableCalls, postPromise,
                   postErrorsLogged, appRejections, lastSyncCall>>
    /\ UNCHANGED <<calls, postedLog, engVars, subVars, reqVars>>

\* postReconciliationToDashboard up to its first await: nothing when sync is
\* off; otherwise the log is built from the data of the call and
\* this.getCreditPerDollar(), and dashboardClient.postReconciliation(log) is
\* called, which makes the first fetch() call at once.
\* Faulty variant: the log is posted whenever a client exists, whether sync is
\* enabled or not.
postReconciliationToDashboard_ignoresFlag(reconciliationData) ==
    IF ~dashboardClient
    THEN /\ postPromise' = "resolved"
         /\ UNCHANGED <<reqVars, postedLog>>
    ELSE /\ postPromise' = "pending"
         /\ postedLog' = [input |-> reconciliationData.input,
                          reconciliation |-> reconciliationData.reconciliation,
                          creditPerDollar |-> config[1].credit_per_dollar]
         /\ StartRequest("post")

postReconciliationToDashboard(reconciliationData) ==
    IF ~dashboardSyncEnabled \/ ~dashboardClient
    THEN /\ postPromise' = "resolved"
         /\ UNCHANGED <<reqVars, postedLog>>
    ELSE /\ postPromise' = "pending"
         /\ postedLog' = [input |-> reconciliationData.input,
                          reconciliation |-> reconciliationData.reconciliation,
                          creditPerDollar |-> config[1].credit_per_dollar]
         /\ StartRequest("post")

\* The actual counts: those the extractor reads in the response, or the
\* estimated ones when no extractor was given.
ActualUsage(response, extractor) ==
    IF extractor = "none" THEN EstimatedUsage(wrapInput) ELSE TokenUsage(response)

ExtractSteps(extractor) == IF extractor = "none" THEN <<>> ELSE <<"extract">>

\* this.reconcile(...) of wrapCall, made with this.config as it is then.
Reconciled(response, extractor) ==
    reconcile(heap, config[1], ReconcileInput(wrapInput, ActualUsage(response, extractor)))

\* The rest of wrapCall, run when callFunction() resolves: extract, reconcile,
\* start the dashboard post without awaiting it, return.
\* Faulty variant: wrapCall awaits the dashboard post before returning.
CallFunctionResolves_awaitsPost(response, extractor) ==
    /\ wrapPc = "invoking"
    /\ reqPc = "idle"
    /\ functionOutcome' = [kind |-> "resolved", value |-> response]
    /\ extractorOutcome' = extractor
    /\ IF extractor = "throws"
       THEN /\ wrapPc' = "threw"
            /\ wrapError' = "ExtractionError"
            /\ steps' = steps \o <<"extract">>
            /\ UNCHANGED <<postPromise, reqVars, wrapResult, postedLog>>
       ELSE IF Reconciled(response, extractor).error # "none"
       THEN /\ wrapPc' = "threw"
            /\ wrapError' = Reconciled(response, extractor).error
            /\ steps' = steps \o ExtractSteps(extractor) \o <<"reconcile">>
            /\ UNCHANGED <<postPromise, reqVars, wrapResult, postedLog>>
       ELSE /\ postReconciliationToDashboard(
                   [input |-> ReconcileInput(wrapInput, ActualUsage(response, extractor)),
                    reconciliation |-> Reconciled(response, extractor).record])
            /\ wrapPc' = IF postPromise' = "pending" THEN "awaitingPost" ELSE "returned"
            /\ wrapResult' = [response |-> response,
                              reconciliation |-> Reconciled(response, extractor).record]
            /\ steps' = steps \o ExtractSteps(extractor) \o <<"reconcile", "post">>
            /\ UNCHANGED wrapError
    /\ UNCHANGED <<wrapInput, configAtCall, estimate, invocations>>
    /\ UNCHANGED <<dashboardSyncEnabled, dashboardClient, replacedClients, callbackGiven, enableCalls,
                   postErrorsLogged, appRejections, lastSyncCall>>
    /\ UNCHANGED <<calls, engVars, subVars>>

\* Faulty variant: an extractor that throws is ignored and the estimated counts
\* are used.
CallFunctionResolves_swallowsExtraction(response, extractor) ==
    /\ wrapPc = "invoking"
    /\ reqPc = "idle"
    /\ functionOutcome' = [kind |-> "resolved", value |-> response]
    /\ extractorOutcome' = extractor
    /\ IF extractor # "throws" /\ Reconciled(response, extractor).error # "none"
       THEN /\ wrapPc' = "threw"
            /\ wrapError' = Reconciled(response, extractor).error
            /\ steps' = steps \o ExtractSteps(extractor) \o <<"reconcile">>
            /\ UNCHANGED <<postPromise, reqVars, wrapResult, postedLog>>
       ELSE /\ postReconciliationToDashboard(
                   [input |-> ReconcileInput(wrapInput, ActualUsage(response, "none")),
                    reconciliation |-> Reconciled(response, "none").record])
            /\ wrapPc' = "returned"
            /\ wrapResult' = [response |-> response,
                              reconciliation |-> Reconciled(response, "none").record]
            /\ steps' = steps \o ExtractSteps(extractor) \o <<"reconcile", "post">>
            /\ UNCHANGED wrapError
    /\ UNCHANGED <<wrapInput, configAtCall, estimate, invocations>>
    /\ UNCHANGED <<dashboardSyncEnabled, dashboardClient, replacedClients, callbackGiven, enableCalls,
                   postErrorsLogged, appRejections, lastSyncCall>>
    /\ UNCHANGED <<calls, engVars, subVars>>

CallFunctionResolves(response, extractor) ==
    /\ wrapPc = "invoking"
    /\ reqPc = "idle"
    /\ functionOutcome' = [kind |-> "resolved", value |-> response]
    /\ extractorOutcome' = extractor
    /\ IF extractor = "throws"
       THEN /\ wrapPc' = "threw"
            /\ wrapError' = "ExtractionError"
            /\ steps' = steps \o <<"extract">>
            /\ UNCHANGED <<postPromise, reqVars, wrapResult, postedLog>>
       ELSE IF Reconciled(response, extractor).error # "none"
       THEN /\ wrapPc' = "threw"
            /\ wrapError' = Reconciled(response, extractor).error
            /\ steps' = steps \o ExtractSteps(extractor) \o <<"reconcile">>
            /\ UNCHANGED <<postPromise, reqVars, wrapResult, postedLog>>
       ELSE /\ postReconciliationToDashboard(
                   [input |-> ReconcileInput(wrapInput, ActualUsage(response, extractor)),
                    reconciliation |-> Reconciled(response, extractor).record])
            /\ wrapPc' = "returned"
            /\ wrapResult' = [response |-> response,
                              reconciliation |-> Reconciled(response, extractor).record]
            /\ steps' = steps \o ExtractSteps(extractor) \o <<"reconcile", "post">>
            /\ UNCHANGED wrapError
    /\ UNCHANGED <<wrapInput, configAtCall, estimate, invocations>>
    /\ UNCHANGED <<dashboardSyncEnabled, dashboardClient, replacedClients, callbackGiven, enableCalls,
                   postErrorsLogged, appRejections, lastSyncCall>>
    /\ UNCHANGED <<calls, engVars, subVars>>

\* dashboardClient.postReconciliation(log) settled: the rest of
\* postReconciliationToDashboard runs.  Its catch block logs a rejection and
\* swallows it, so its promise resolves and the .catch of wrapCall has nothing
\* to handle.
\* Faulty variant: the rejection of the post is rethrown and nothing handles it.
PostSettles_rethrows ==
    /\ postPromise = "pending"
    /\ reqPc \in {"resolved", "rejected"}
    /\ postPromise' = reqPc
    /\ appRejections' = IF reqPc = "rejected" THEN appRejections + 1 ELSE appRejections
    /\ UNCHANGED postErrorsLogged
    /\ UNCHANGED <<dashboardSyncEnabled, dashboardClient, replacedClients, callbackGiven,
                   enableCalls, wrapPc, wrapError,
                   lastSyncCall>>
    /\ UNCHANGED <<callVars, engVars, subVars, reqVars>>

PostSettles ==
    /\ postPromise = "pending"
    /\ reqPc \in {"resolved", "rejected"}
    /\ postPromise' = "resolved"
    /\ postErrorsLogged' = IF reqPc = "rejected" THEN postErrorsLogged + 1
                           ELSE postErrorsLogged
    /\ UNCHANGED appRejections
    /\ UNCHANGED <<dashboardSyncEnabled, dashboardClient, replacedClients, callbackGiven,
                   enableCalls, wrapPc, wrapError,
                   lastSyncCall>>
    /\ UNCHANGED <<callVars, engVars, subVars, reqVars>>

\* ---- several wrapCall() runs in flight together (sdk.ts with dashboard sync: 163-217)
\* Each run keeps the fields of its input in its own locals; the runs share
\* this.config and the dashboard client only.  A run is one step up to its
\* await of callFunction() and one step after it.

\* The inputs of the runs made together.
ConcurrentInputs ==
    {[model |-> "openai:gpt-4", feature |-> "chat",
      promptTokens |-> 100, completionTokens |-> 200],
     [model |-> "openai:gpt-3.5-turbo", feature |-> "chat",
      promptTokens |-> 1, completionTokens |-> 1],
     [model |-> "custom:unknown", feature |-> "chat",
      promptTokens |-> 100, completionTokens |-> 200]}

\* The runs that are awaiting their callFunction().
AwaitingRuns == {k \in CallIds : calls[k].pc = "invoking"}

\* wrapCall of run c up to its await; overlapped records whether another run
\* was in flight then.
\* Faulty variant: the fields of the input are kept in a field of the instance,
\* so the runs still awaiting their function see the input of the last run.
WrapCallOf_sharedInput(c, input) ==
    /\ calls[c].pc = "idle"
    /\ calls' = [k \in CallIds |->
                    IF k = c
                    THEN [calls[c] EXCEPT
                             !.pc = IF estimateCredits(heap, config[1], input).error = "none"
                                    THEN "invoking" ELSE "threw",
                             !.arg = input,
                             !.locals = input,
                             !.error = estimateCredits(heap, config[1], input).error,
                             !.overlapped = (AwaitingRuns # {})]
                    ELSE IF calls[k].pc = "invoking"
                    THEN [calls[k] EXCEPT !.locals = input]
                    ELSE calls[k]]
    /\ UNCHANGED <<wrapInput, configAtCall, estimate, steps, invocations, functionOutcome,
                   extractorOutcome, wrapResult, postedLog>>
    /\ UNCHANGED <<dashboardSyncEnabled, dashboardClient, replacedClients, callbackGiven,
                   enableCalls, wrapPc, wrapError,
                   postPromise, postErrorsLogged, appRejections, lastSyncCall>>
    /\ UNCHANGED <<engVars, subVars, reqVars>>

WrapCallOf(c, input) ==
    /\ calls[c].pc = "idle"
    /\ calls' = [calls EXCEPT
                    ![c].pc = IF estimateCredits(heap, config[1], input).error = "none"
                              THEN "invoking" ELSE "threw",
                    ![c].arg = input,
                    ![c].locals = input,
                    ![c].error = estimateCredits(heap, config[1], input).error,
                    ![c].overlapped = (AwaitingRuns # {})]
    /\ UNCHANGED <<wrapInput, configAtCall, estimate, steps, invocations, functionOutcome,
                   extractorOutcome, wrapResult, postedLog>>
    /\ UNCHANGED <<dashboardSyncEnabled, dashboardClient, replacedClients, callbackGiven,
                   enableCalls, wrapPc, wrapError,
                   postPromise, postErrorsLogged, appRejections, lastSyncCall>>
    /\ UNCHANGED <<engVars, subVars, reqVars>>

\* callFunction() of run c rejects: the run rejects with the same error.
CallFunctionOfRejects(c, error) ==
    /\ calls[c].pc = "invoking"
    /\ calls' = [calls EXCEPT
                    ![c].pc = "threw",
                    ![c].outcome = [kind |-> "rejected", value |-> error],
                    ![c].error = error]
    /\ UNCHANGED <<wrapInput, configAtCall, estimate, steps, invocations, functionOutcome,
                   extractorOutcome, wrapResult, postedLog>>
    /\ UNCHANGED <<dashboardSyncEnabled, dashboardClient, replacedClients, callbackGiven,
                   enableCalls, wrapPc, wrapError,
                   postPromise, postErrorsLogged, appRejections, lastSyncCall>>
    /\ UNCHANGED <<engVars, subVars, reqVars>>

\* this.reconcile(...) of run c, made with its locals and this.config as it is
\* when its function resolved.
ReconciledOf(c, response, extractor) ==
    reconcile(heap, config[1],
              ReconcileInput(calls[c].locals,
                             IF extractor = "none" THEN EstimatedUsage(calls[c].locals)
                             ELSE TokenUsage(response)))

\* The rest of run c, when its callFunction() resolves: extract, reconcile,
\* start the dashboard post of its record when sync is on, return.  Each post
\* is a retryRequest run of its own; only whether it was started is kept here.
CallFunctionOfResolves(c, response, extractor) ==
    /\ calls[c].pc = "invoking"
    /\ calls' = [calls EXCEPT
                    ![c].outcome = [kind |-> "resolved", value |-> response],
                    ![c].extractor = extractor,
                    ![c].pc = IF extractor = "throws"
                                 \/ ReconciledOf(c, response, extractor).error # "none"
                              THEN "threw" ELSE "returned",
                    ![c].error = IF extractor = "throws" THEN "ExtractionError"
                                 ELSE ReconciledOf(c, response, extractor).error,
                    ![c].result =
                        IF extractor = "throws"
                           \/ ReconciledOf(c, response, extractor).error # "none"
                        THEN NoResult
                        ELSE [response |-> response,
                              reconciliation |->
                                  ReconciledOf(c, response, extractor).record],
                    ![c].post =
                        IF extractor = "throws"
                           \/ ReconciledOf(c, response, extractor).error # "none"
                        THEN "none"
                        ELSE IF ~dashboardSyncEnabled \/ ~dashboardClient
                        THEN "skipped" ELSE "started"]
    /\ UNCHANGED <<wrapInput, configAtCall, estimate, steps, invocations, functionOutcome,
                   extractorOutcome, wrapResult, postedLog>>
    /\ UNCHANGED <<dashboardSyncEnabled, dashboardClient, replacedClients, callbackGiven,
                   enableCalls, wrapPc, wrapError,
                   postPromise, postErrorsLogged, appRejections, lastSyncCall>>
    /\ UNCHANGED <<engVars, subVars, reqVars>>


\* The inputs of the wrapCall() whose dashboard post is followed to its end.
PostedInputs ==
    {i \in CallInputs : i.promptTokens = 100 /\ i.completionTokens = 200}

NextWrap ==
    \/ \E fail \in EnableFailures : EnableDashboardSync(fail)
    \/ DisableDashboardSync
    \/ RunTrySSE
    \/ RunStartPolling
    \/ \E input \in PostedInputs : WrapCall(input)
    \/ \E error \in InvocationErrors : CallFunctionRejects(error)
    \/ \E extractor \in {"none", "ok", "throws"} :
          CallFunctionResolves("responseA", extractor)
    \/ PostSettles
    \/ \E resp \in Responses : FetchResolves(resp)
    \/ FetchRejects
    \/ AbortTimerFires
    \/ BackoffElapsed

\* One engine and one wrapCall() with every input, response and extractor of
\* the model, the configuration documents that arrive meanwhile, and the
\* dashboard post the call starts; the post is not followed further.
NextCall ==
    \/ \E fail \in EnableFailures : EnableDashboardSync(fail)
    \/ DisableDashboardSync
    \/ \E doc \in Docs : ConfigUpdated(doc)
    \/ \E input \in CallInputs : WrapCall(input)
    \/ \E error \in InvocationErrors : CallFunctionRejects(error)
    \/ \E response \in LLMResponses, extractor \in {"none", "ok", "throws"} :
          CallFunctionResolves(response, extractor)

\* One engine whose sync may be enabled, the configuration documents it gets
\* and the calls the application makes on it and on a second engine.
NextEngine ==
    \/ \E fail \in EnableFailures : EnableDashboardSync(fail)
    \/ \E doc \in Docs : ConfigUpdated(doc)
    \/ \E e \in Engines, input \in CallInputs : EstimateCredits(e, input)
    \/ \E e \in Engines, input \in ReconcileInputs : Reconcile(e, input)
    \/ \E e \in Engines : GetConfig(e)

\* Lookups of a model on two engines while engine 1 receives configurations.
NextLookup ==
    \/ \E fail \in EnableFailures : EnableDashboardSync(fail)
    \/ \E doc \in Docs : ConfigUpdated(doc)
    \/ \E e \in Engines, input \in LookupInputs : EstimateCredits(e, input)
    \/ \E e \in Engines, input \in LookupInputs :
          Reconcile(e, ReconcileInput(input, EstimatedUsage(input)))
    \/ \E e \in Engines, model \in LookupNames : GetAvailableFeatures(e, model)

\* Two engines and an application that writes through what getConfig returns.
NextAlias ==
    \/ \E e \in Engines, input \in CallInputs : EstimateCredits(e, input)
    \/ \E e \in Engines : GetConfig(e)
    \/ \E field \in {"default_margin", "credit_per_dollar"} : MutateTopLevel(field)
    \/ \E m \in ModelNames : MutateModelsMap(m)
    \/ \E m \in ModelNames, field \in {"prompt_cost_per_1k", "completion_cost_per_1k"} :
          MutateModel(m, field)
    \/ \E m \in ModelNames, f \in FeatureNames : MutateFeature(m, f)

\* The inputs of the pricing laws: every model name and feature with each of
\* the estimated counts, and for reconcile the actual counts tried with them
\* (the same, higher ones, lower ones, one higher and one lower).
EstimatedCounts == {<<0, 0>>, <<1, 1>>, <<100, 200>>, <<150, 350>>}

ActualCounts(t) ==
    {t} \cup (CASE t = <<0, 0>> -> {<<1, 1>>}
               [] t = <<1, 1>> -> {<<0, 0>>, <<2, 1>>}
               [] t = <<100, 200>> -> {<<120, 250>>, <<80, 150>>, <<0, 0>>}
               [] t = <<150, 350>> -> {<<160, 340>>})

PricingInputs ==
    {[model |-> m, feature |-> f, promptTokens |-> t[1], completionTokens |-> t[2]] :
        m \in ModelNames, f \in FeatureNames, t \in EstimatedCounts}

PricingReconcileInputs ==
    UNION {{ReconcileInput(i, [promptTokens |-> a[1], completionTokens |-> a[2]]) :
               a \in ActualCounts(<<i.promptTokens, i.completionTokens>>)} :
           i \in PricingInputs}

\* One call of estimateCredits, reconcile or getConfig on engine 1 as it is
\* constructed: the functions are pure, so a second call shows nothing new.
NextPricing ==
    \/ \E input \in PricingInputs : lastEval = NoEval /\ EstimateCredits(1, input)
    \/ \E input \in PricingReconcileInputs : lastEval = NoEval /\ Reconcile(1, input)
    \/ lastEval = NoEval /\ GetConfig(1)

(***************************************************************************)
(* Specifications.  SpecSub: one DashboardClient, its subscription and the *)
(* events of its streams and timers.  SpecRetry: one postReconciliation()  *)
(* or getConfig() call against an endpoint that answers as it likes.       *)
(* SpecWrap: one engine, one wrapCall() and the dashboard post it starts,  *)
(* followed to its end.  SpecCall: one wrapCall() with every input,        *)
(* response and extractor, while the dashboard delivers configurations.    *)
(* SpecEngine: estimateCredits, reconcile and getConfig on two engines,    *)
(* engine 1 receiving configurations.  SpecAlias: getConfig and what the   *)
(* application writes through the value it returned.  SpecPricing: the    *)
(* pure functions estimateCredits, reconcile and mergeConfigs; its initial *)
(* states draw the customConfig of engine 1 from PricingConfigs and its    *)
(* actions apply the functions to the inputs of the pricing laws.          *)
(* SpecLookup: the model lookup of estimateCredits, reconcile and          *)
(* getAvailableFeatures on two engines, engine 1 receiving configurations. *)
(* SpecPolling: the client against a dashboard on which no push connection *)
(* opens, with the outcomes of its polls.  SpecUpdates: the client with    *)
(* the outcomes of its polls and the messages of its open streams.         *)
(* SpecRetryLive: SpecRetry where the timers of the runtime fire.          *)
(* SpecConcurrent: several wrapCall() runs of one engine in flight.        *)
(***************************************************************************)
Init == InitSub /\ InitReq /\ InitWrap /\ InitCall /\ InitEng

\* The pricing laws do not depend on the transports the runtime has.
InitPricing ==
    /\ InitSub /\ wsAvailable /\ sseAvailable
    /\ InitReq /\ InitWrap /\ InitCall /\ InitEngine(PricingConfigs)

SpecSub == Init /\ [][NextSub]_vars

\* One client of an engine made with no customConfig.
InitUpdates == InitSub /\ InitReq /\ InitWrap /\ InitCall /\ InitEngine({"none"})

SpecPolling == InitUpdates /\ [][NextPolling]_vars

SpecUpdates == InitUpdates /\ [][NextUpdates]_vars

SpecRetry == Init /\ [][NextRetry]_vars

\* SpecRetry where the timers of the runtime fire: an armed abort timer and a
\* backoff timer are not postponed for ever.  Nothing is assumed of the remote
\* endpoint: it may never answer a request and never finish a response body.
SpecRetryLive ==
    SpecRetry /\ WF_vars(AbortTimerFires) /\ WF_vars(BackoffElapsed)

SpecWrap == Init /\ [][NextWrap]_vars

SpecCall == Init /\ [][NextCall]_vars

SpecEngine == Init /\ [][NextEngine]_vars

SpecAlias == Init /\ [][NextAlias]_vars

SpecPricing == InitPricing /\ [][NextPricing]_vars

SpecLookup == Init /\ [][NextLookup]_vars

\* Several wrapCall() runs of one engine in flight together, with sync enabled
\* or not; no configuration document arrives, so this.config stays the one the
\* engine was constructed with.
NextConcurrent ==
    \/ \E fail \in EnableFailures : EnableDashboardSync(fail)
    \/ \E c \in CallIds, input \in ConcurrentInputs : WrapCallOf(c, input)
    \/ \E c \in CallIds : CallFunctionOfRejects(c, "API Error")
    \/ \E c \in CallIds, response \in LLMResponses, extractor \in {"none", "ok"} :
          CallFunctionOfResolves(c, response, extractor)

\* The engine runs where both WebSocket and EventSource exist.
InitConcurrent ==
    /\ InitSub /\ wsAvailable /\ sseAvailable
    /\ InitReq /\ InitWrap /\ InitCall /\ InitEng

SpecConcurrent == InitConcurrent /\ [][NextConcurrent]_vars


(***************************************************************************)
(* Claims about the subscription machine (checked under SpecSub).          *)
(***************************************************************************)
LiveConns == {i \in ConnIds : Live(conns[i])}
OpenConns == {i \in ConnIds : conns[i].readyState = "OPEN"}
ActiveIntervals == {k \in 1..Len(intervals) : intervals[k].active}

\* C1 (as claimed): whenever the client is Unsubscribed (isSubscribed is false:
\* before the first subscribe, or after unsubscribe() and until the next
\* subscribe()), every stream connection it opened is closed or closing, no
\* polling timer is active and the client tracks no stream and no timer.
C1_UnsubscribedHoldsNothing ==
    ~isSubscribed =>
        /\ LiveConns = {}
        /\ ActiveIntervals = {}
        /\ configSubscription = NULL
        /\ pollingInterval = NULL

\* C2 (as claimed): in every reachable state there is at most one live stream
\* connection and at most one active polling timer, every open stream is the
\* one in configSubscription and every active timer the one in pollingInterval.
C2_SingletonResources ==
    /\ Cardinality(LiveConns) <= 1
    /\ Cardinality(ActiveIntervals) <= 1
    /\ \A i \in OpenConns : configSubscription = i
    /\ \A k \in ActiveIntervals : pollingInterval = k

\* C3: a subscribeToConfigUpdates() call made while the client is subscribed
\* changes nothing (no stream, timer, reconnect or promise reaction is created,
\* no field is written), and a call made while it is not subscribed starts
\* exactly one connection attempt: one stream object, or, when WebSocket is not
\* available, one queued fallback.  So two calls in succession create what one
\* call creates.
C3_SubscribeIdempotent ==
    [][subscribeCalls' = subscribeCalls + 1 =>
          IF isSubscribed
          THEN UNCHANGED <<isSubscribed, configSubscription, pollingInterval, conns,
                           intervals, reconnects, microtasks, pollFetches>>
          ELSE /\ isSubscribed'
               /\ Len(conns') + Len(microtasks') = Len(conns) + Len(microtasks) + 1
               /\ UNCHANGED <<configSubscription, pollingInterval, intervals,
                              reconnects, pollFetches>>]_vars

\* Witness of C3: two calls, no unsubscribe or event in between: one stream.
C3_Witness ==
    /\ subscribeCalls = 2 /\ isSubscribed
    /\ Len(conns) = 1 /\ conns[1].readyState = "CONNECTING" /\ conns[1].timeout
    /\ microtasks = <<>> /\ intervals = <<>> /\ reconnects = <<>>

(***************************************************************************)
(* Claims about retryRequest (checked under SpecRetry).                    *)
(***************************************************************************)
Failed(o) == o.kind # "ok"
Attempts == 1..Len(outcomes)
FailedAttempts == {j \in Attempts : Failed(outcomes[j])}
ErrorOfOutcome(o) == [kind |-> o.kind, status |-> o.status, statusText |-> o.statusText]

\* C4: for postReconciliation, a successful attempt is the last one made: when
\* the first k attempts failed (k <= 3) and attempt k+1 succeeded, exactly k+1
\* transport calls have been made, the operation has resolved and no further
\* call follows; the operation gives up only after 4 failed attempts, so 3
\* failures followed by a success give 4 calls and success.
C4_RetryUntilSuccess ==
    reqOp = "post" =>
        /\ \A j \in Attempts :
              outcomes[j].kind = "ok" =>
                  /\ j = Len(outcomes) /\ j <= 4
                  /\ \A i \in 1..(j - 1) : Failed(outcomes[i])
                  /\ fetchCalls = j
                  /\ reqPc = "resolved"
        /\ reqPc = "resolved" => Len(outcomes) >= 1 /\ outcomes[Len(outcomes)].kind = "ok"
        /\ reqPc = "rejected" => Cardinality(FailedAttempts) = 4

\* Witness of C4: three failures, then success on the fourth call.
C4_Witness ==
    /\ reqOp = "post" /\ reqPc = "resolved"
    /\ Len(outcomes) = 4 /\ fetchCalls = 4
    /\ outcomes[1].kind = "network" /\ outcomes[2].kind = "api"
    /\ outcomes[3].kind = "network" /\ outcomes[4].kind = "ok"

\* C5: for postReconciliation, never more than 4 transport calls are made; when
\* all attempts fail, exactly 4 calls have been made and the operation rejects
\* (it never resolves) with the error of the 4th attempt, which for a non-2xx
\* response names that response's status and status text.
C5_AllAttemptsFail ==
    reqOp = "post" =>
        /\ fetchCalls <= 4
        /\ Len(outcomes) <= 4
        /\ (Len(outcomes) = 4 /\ FailedAttempts = 1..4) =>
              /\ reqPc = "rejected"
              /\ fetchCalls = 4
              /\ lastError = ErrorOfOutcome(outcomes[4])
              /\ outcomes[4].kind = "api" =>
                    /\ lastError.kind = "api"
                    /\ lastError.status = outcomes[4].status
                    /\ lastError.statusText = outcomes[4].statusText
        /\ reqPc = "rejected" => (Len(outcomes) = 4 /\ FailedAttempts = 1..4)

\* Witness of C5: four failures, the last one a 500 after an earlier 404.
C5_Witness ==
    /\ reqOp = "post" /\ reqPc = "rejected" /\ fetchCalls = 4
    /\ outcomes[1].kind = "api" /\ outcomes[1].status = 404
    /\ outcomes[4].kind = "api" /\ outcomes[4].status = 500
    /\ lastError = [kind |-> "api", status |-> 500, statusText |-> "Internal Server Error"]

\* C6: the backoff delay set after the n-th failed attempt (n = 1, 2, 3) is
\* 500 * 2^(n-1) ms: 500, 1000, 2000 in that order; one delay is set for each of
\* the first three failures and none after the fourth; while a delay is pending
\* the next attempt has not started.
C6_BackoffDelays ==
    /\ Len(delays) <= 3
    /\ \A n \in 1..Len(delays) : delays[n] = 500 * 2^(n - 1)
    /\ \A n \in 1..Len(delays) : delays[n] = <<500, 1000, 2000>>[n]
    /\ Len(delays) = IF Cardinality(FailedAttempts) <= 3
                     THEN Cardinality(FailedAttempts) ELSE 3
    /\ reqPc = "backoff" => fetchCalls = Len(delays) /\ Len(outcomes) = Len(delays)
    /\ reqPc \in {"fetching", "reading"} =>
          fetchCalls = Len(delays) + 1 /\ Len(outcomes) = Len(delays)

\* Witness of C6: all four attempts failed, three delays were waited.
C6_Witness ==
    /\ reqPc = "rejected" /\ Cardinality(FailedAttempts) = 4
    /\ delays = <<500, 1000, 2000>>

\* C7: while the fetch() of an attempt is pending, a 5000 ms abort timer of that
\* attempt is armed, and it is armed at no other time; an attempt that ended by
\* that timer counts as one of the at most 4 attempts and is handled as any
\* failed attempt: after attempts 1..3 the backoff delay 500 * 2^(n-1) is set
\* and the next attempt follows it, after attempt 4 the operation rejects.
C7_AttemptTimeout ==
    /\ reqPc = "fetching" => abortTimer = [armed |-> TRUE, ms |-> 5000]
    /\ reqPc # "fetching" => ~abortTimer.armed
    /\ \A j \in Attempts :
          outcomes[j].kind = "abort" =>
              /\ j <= 4
              /\ j <= 3 => /\ Len(delays) >= j
                           /\ delays[j] = 500 * 2^(j - 1)
                           /\ IF reqPc = "backoff" /\ j = Len(outcomes)
                              THEN fetchCalls = j
                              ELSE fetchCalls > j
              /\ j = 4 => reqPc = "rejected" /\ lastError = AbortError

\* Witness of C7: getConfig whose first attempt timed out and was retried.
C7_Witness ==
    /\ reqOp = "getConfig" /\ reqPc = "fetching"
    /\ Len(outcomes) = 1 /\ outcomes[1].kind = "abort"
    /\ fetchCalls = 2 /\ delays = <<500>>

\* C8: getConfig makes at most 4 attempts, with delays 500, 1000, 2000 ms between
\* them; it resolves with the document of the first attempt that succeeds, and
\* makes no attempt after it; when all 4 attempts fail it rejects with the error
\* of the last attempt, which for a non-2xx response names its status and text.
C8_GetConfigRetry ==
    reqOp = "getConfig" =>
        /\ fetchCalls <= 4
        /\ \A n \in 1..Len(delays) : delays[n] = <<500, 1000, 2000>>[n]
        /\ Len(delays) <= 3
        /\ reqPc \in {"fetching", "reading"} => Len(delays) = fetchCalls - 1
        /\ \A j \in Attempts :
              outcomes[j].kind = "ok" =>
                  /\ j = Len(outcomes) /\ fetchCalls = j
                  /\ reqPc = "resolved"
                  /\ reqResult = outcomes[j].doc /\ reqResult \in Docs
        /\ reqPc = "resolved" => Len(outcomes) >= 1 /\ outcomes[Len(outcomes)].kind = "ok"
        /\ reqPc = "rejected" <=> (Len(outcomes) = 4 /\ FailedAttempts = 1..4)
        /\ reqPc = "rejected" =>
              /\ fetchCalls = 4
              /\ lastError = ErrorOfOutcome(outcomes[4])
              /\ outcomes[4].kind = "api" =>
                    /\ lastError.status = outcomes[4].status
                    /\ lastError.statusText = outcomes[4].statusText

\* Witness of C8: three failed attempts (one of them a body that is not JSON),
\* then a document.
C8_Witness ==
    /\ reqOp = "getConfig" /\ reqPc = "resolved"
    /\ Len(outcomes) = 4 /\ outcomes[2].kind = "json" /\ outcomes[3].status = 404
    /\ reqResult = "configB" /\ delays = <<500, 1000, 2000>>

(***************************************************************************)
(* Claims about wrapCall and the dashboard post (checked under SpecWrap).  *)
(***************************************************************************)
\* C9: whatever the dashboard post does (pending, retried, resolved, rejected
\* after 4 failed attempts), no rejection of the posting path reaches the
\* application: the promise of postReconciliationToDashboard never rejects,
\* and the wrapCall that started the post has resolved and stays resolved.
C9_PostFailureNeverSurfaces ==
    /\ appRejections = 0
    /\ postPromise # "rejected"
    /\ reqOp = "post" => wrapPc = "returned" /\ wrapError = "none"

\* Witness of C9: the post failed 4 times and was logged; wrapCall has resolved.
C9_Witness ==
    /\ wrapPc = "returned" /\ reqPc = "rejected" /\ Len(outcomes) = 4
    /\ postPromise = "resolved" /\ postErrorsLogged = 1

\* C10: wrapCall returns in the step in which reconcile completes and the post
\* is started: in every state in which a post has been started, whatever it is
\* doing (first attempt unanswered, backoff, retry), wrapCall has returned, and
\* at the moment of the return no attempt of the post has completed.
C10_ReturnDoesNotAwaitPost ==
    /\ postPromise # "none" => wrapPc = "returned"
    /\ reqPc # "idle" => wrapPc = "returned"
    /\ wrapPc \in {"idle", "invoking", "threw"} =>
          fetchCalls = 0 /\ outcomes = <<>> /\ delays = <<>>

\* Witness of C10: wrapCall has returned while the first attempt of the post
\* is still unanswered.
C10_Witness ==
    /\ wrapPc = "returned" /\ postPromise = "pending"
    /\ reqPc = "fetching" /\ fetchCalls = 1 /\ outcomes = <<>>

(***************************************************************************)
(* Claims about one wrapCall (checked under SpecCall).                     *)
(***************************************************************************)
Steps == {steps[i] : i \in 1..Len(steps)}

\* An amount that a call returned is the number of v millionths (-0 is 0), is
\* above 0, is below 0.
Is(amount, v) == amount.kind = "num" /\ amount.v = v
Above0(amount) == amount.kind \in {"num", "inf"} /\ amount.v > 0
Below0(amount) == amount.kind \in {"num", "inf"} /\ amount.v < 0
IsPrefix(s, t) == Len(s) <= Len(t) /\ \A i \in 1..Len(s) : s[i] = t[i]
StepOrder(extractor) ==
    <<"estimate", "invoke">> \o ExtractSteps(extractor) \o <<"reconcile", "post">>
SyncOn == dashboardSyncEnabled /\ dashboardClient

\* C11: within one wrapCall the steps run in the order estimate, invoke,
\* extract, reconcile (then the post is started): the estimate, with its model
\* lookup, has completed without error before callFunction is called,
\* callFunction is called at most once, the extractor runs only once the
\* function has resolved with a response, and reconcile runs only after the
\* extraction; a wrapCall for a model that is not configured throws the
\* unknown-model error and never calls callFunction.
C11_StepsInOrder ==
    /\ \E extractor \in {"none", "ok"} : IsPrefix(steps, StepOrder(extractor))
    /\ invocations = IF "invoke" \in Steps THEN 1 ELSE 0
    /\ "invoke" \in Steps => estimate.error = "none"
    /\ "extract" \in Steps =>
          functionOutcome.kind = "resolved" /\ extractorOutcome \in {"ok", "throws"}
    /\ "reconcile" \in Steps =>
          functionOutcome.kind = "resolved" /\ extractorOutcome \in {"none", "ok"}
    /\ (extractorOutcome = "ok" /\ "reconcile" \in Steps) => "extract" \in Steps
    /\ (wrapPc # "idle" /\ estimate.error # "none") =>
          /\ wrapPc = "threw" /\ wrapError = "UnknownModelError"
          /\ invocations = 0 /\ steps = <<"estimate">>

\* Witness of C11: a wrapCall with an extractor has run all its steps.
C11_Witness ==
    /\ wrapPc = "returned" /\ invocations = 1
    /\ steps = <<"estimate", "invoke", "extract", "reconcile", "post">>

\* C12 (as claimed): the reconciliation record a wrapCall returns is the one
\* computed from the configuration that was in force when wrapCall was called,
\* also when a dashboard update replaced the configuration while callFunction
\* was in flight; and the model lookup is the one made at call time, so a call
\* fails with the unknown-model error only if the model was unknown then.
C12_SnapshotAtCallTime ==
    /\ wrapPc = "returned" =>
          wrapResult.reconciliation =
              reconcile(heap, configAtCall,
                        ReconcileInput(wrapInput,
                                       ActualUsage(functionOutcome.value,
                                                   extractorOutcome))).record
    /\ (wrapPc = "threw" /\ wrapError = "UnknownModelError") =>
          estimate.error = "UnknownModelError"

\* C16: when callFunction rejects, wrapCall rejects with the very error the
\* function rejected with; the extractor is not called, nothing is reconciled,
\* no result is returned and no post is started.
C16_InvocationErrorPropagates ==
    functionOutcome.kind = "rejected" =>
        /\ wrapPc = "threw" /\ wrapError = functionOutcome.value
        /\ steps = <<"estimate", "invoke">>
        /\ extractorOutcome = "notRun"
        /\ wrapResult = NoResult
        /\ postPromise = "none" /\ reqOp = "none" /\ fetchCalls = 0

\* Witness of C16: the function rejected while the dashboard sync was on.
C16_Witness ==
    /\ functionOutcome = [kind |-> "rejected", value |-> "Rate limited"]
    /\ wrapPc = "threw" /\ SyncOn

\* C17: when the extractor throws on the response, wrapCall rejects with the
\* error the extractor threw; nothing is reconciled, no result is returned and
\* no post is started.
C17_ExtractionErrorPropagates ==
    extractorOutcome = "throws" =>
        /\ wrapPc = "threw" /\ wrapError = "ExtractionError"
        /\ steps = <<"estimate", "invoke", "extract">>
        /\ wrapResult = NoResult
        /\ postPromise = "none" /\ reqOp = "none" /\ fetchCalls = 0

\* Witness of C17: the extractor threw on a response while the sync was on.
C17_Witness ==
    /\ extractorOutcome = "throws" /\ functionOutcome.kind = "resolved"
    /\ wrapPc = "threw" /\ SyncOn

\* C18 (as claimed): a wrapCall without extractor takes the estimated counts
\* as the actual ones: for all estimated counts p and c its record has
\* actualTokensUsed = p + c and a credit delta of 0, and the response returned
\* is the value callFunction resolved with.
C18_NoExtractorDeltaZero ==
    (wrapPc = "returned" /\ extractorOutcome = "none") =>
        /\ wrapResult.reconciliation.actualTokensUsed =
              wrapInput.promptTokens + wrapInput.completionTokens
        /\ Is(wrapResult.reconciliation.estimatedVsActualCreditDelta, 0)
        /\ wrapResult.response = functionOutcome.value

(***************************************************************************)
(* Claims about the configuration of an engine (checked under SpecEngine   *)
(* and, for what the application writes, under SpecAlias).                 *)
(***************************************************************************)
\* The configuration in force on engine e after document doc, made of objects
\* of its own: the constructed one when no document has come.
InForce(e, doc) ==
    IF doc # "none" THEN NewConfig(<<>>, DocConfig(doc))
    ELSE IF e = 1 THEN Engine1(custom) ELSE Engine2(custom)

\* C13: every estimateCredits, reconcile and getConfig call, however it is
\* interleaved with configuration updates, returns what one whole configuration
\* gives: the one in force when it was called (the constructed configuration,
\* or the document of the last update), with the models, the margins and
\* credit_per_dollar all taken from it.
C13_ReadersSeeOneConfiguration ==
    lastEval.op # "none" =>
        LET whole == InForce(lastEval.engine, lastEval.doc)
        IN  /\ lastEval.op = "estimateCredits" =>
                  lastEval.estimate = estimateCredits(whole.heap, whole.config, lastEval.input)
            /\ lastEval.op = "reconcile" =>
                  lastEval.reconciliation = reconcile(whole.heap, whole.config, lastEval.input)
            /\ lastEval.op = "getConfig" =>
                  lastEval.value = ConfigValue(whole.heap, whole.config)

\* Witness of C13: a reconcile call made after an update was handled.
C13_Witness ==
    /\ lastEval.op = "reconcile" /\ lastEval.engine = 1 /\ lastEval.doc = "configB"
    /\ lastEval.reconciliation.error = "none" /\ updates = 1
    /\ lastEval.input.actualPromptTokens = 110

\* C14: once an update carrying a configuration document has been handled, the
\* configuration of the engine is that document and nothing else:
\* getConfig returns its default_margin, credit_per_dollar and models, and
\* estimateCredits for a model that the document does not have throws the
\* unknown-model error, whether or not the model was configured before.
C14_UpdateReplacesWholesale ==
    lastDoc # "none" =>
        LET whole == NewConfig(<<>>, DocConfig(lastDoc))
            sent == ConfigValue(whole.heap, whole.config)
            after == lastEval.engine = 1 /\ lastEval.doc = lastDoc
        IN  /\ ConfigValue(heap, config[1]) = sent
            /\ (after /\ lastEval.op = "getConfig") => lastEval.value = sent
            /\ (after /\ lastEval.op = "estimateCredits"
                  /\ ~sent.models[lastEval.input.model].present) =>
                  lastEval.estimate = NoEstimate

\* Witness of C14: configA, which has no gpt-3.5-turbo, was handled and an
\* estimate for that model was asked for.
C14_Witness ==
    /\ lastDoc = "configA" /\ lastEval.op = "estimateCredits" /\ lastEval.engine = 1
    /\ lastEval.doc = "configA" /\ lastEval.input.model = "openai:gpt-3.5-turbo"
    /\ lastEval.estimate.error = "UnknownModelError"

\* What the application can observe of engine e: what getConfig returns, all
\* objects followed, and the estimate of every input.
Observable(h, cfg) ==
    <<ConfigValue(h, cfg), [i \in CallInputs |-> estimateCredits(h, cfg, i)]>>

\* C15 (as claimed): no write the application makes through a value that
\* getConfig returned, at whatever depth, changes what getConfig or
\* estimateCredits return afterwards, on the same engine or on another one.
C15_GetConfigIsDefensiveCopy ==
    [][mutations' # mutations =>
          \A e \in Engines :
              Observable(heap', config'[e]) = Observable(heap, config[e])]_vars

(***************************************************************************)
(* Claims about the dashboard sync switches and the offline path (checked  *)
(* under SpecWrap).                                                        *)
(***************************************************************************)
\* C19: enableDashboardSync never throws: when the constructor of the client or
\* the subscription throws, the call returns and isDashboardSyncEnabled() is
\* false; after an enable that did not fail it is true; after
\* disableDashboardSync, which can be called at any time, it is false.
C19_EnableNeverThrows ==
    /\ lastSyncCall # "enableThrew"
    /\ lastSyncCall = "enableFailed" => ~dashboardSyncEnabled
    /\ lastSyncCall = "enabled" => dashboardSyncEnabled /\ dashboardClient
    /\ lastSyncCall = "disabled" => ~dashboardSyncEnabled /\ ~dashboardClient
    /\ lastSyncCall = "none" => ~dashboardSyncEnabled /\ ~dashboardClient

\* Witness of C19: the subscription threw inside enableDashboardSync.
C19_Witness ==
    /\ lastSyncCall = "enableFailed" /\ dashboardClient /\ ~dashboardSyncEnabled
    /\ enableCalls = 1

\* wrapCall as an engine that was never synced runs it: a function of the
\* customConfig of the engine, the input, what callFunction did and the
\* extractor.
OfflineWrapCall(c, input, outcome, extractor) ==
    LET offline == Engine1(c)
        threw(error) == [pc |-> "threw", error |-> error, result |-> NoResult]
        reconciliation == reconcile(offline.heap, offline.config,
                                    ReconcileInput(input,
                                        IF extractor = "ok" THEN TokenUsage(outcome.value)
                                        ELSE EstimatedUsage(input)))
    IN  IF estimateCredits(offline.heap, offline.config, input).error # "none"
        THEN threw(estimateCredits(offline.heap, offline.config, input).error)
        ELSE IF outcome.kind = "rejected" THEN threw(outcome.value)
        ELSE IF extractor = "throws" THEN threw("ExtractionError")
        ELSE [pc |-> "returned", error |-> "none",
              result |-> [response |-> outcome.value,
                          reconciliation |-> reconciliation.record]]

\* C20: as long as no configuration update is delivered, a wrapCall ends as it
\* does on an engine that was never synced: the result or the error depends
\* only on the engine's own configuration, the input, callFunction and the
\* extractor, not on whether the sync is enabled, nor on what the endpoint does
\* with the post (no answer, errors, failures of the network).
C20_OfflinePathIndependent ==
    (updates = 0 /\ wrapPc \in {"returned", "threw"}) =>
        [pc |-> wrapPc, error |-> wrapError, result |-> wrapResult]
            = OfflineWrapCall(custom, wrapInput, functionOutcome, extractorOutcome)

\* Witness of C20: the sync is on, the post failed 4 times, the call returned.
C20_Witness ==
    /\ wrapPc = "returned" /\ SyncOn /\ custom = "perDollar"
    /\ reqPc = "rejected" /\ Len(outcomes) = 4 /\ updates = 0

(***************************************************************************)
(* Claims about the pricing functions and mergeConfigs (checked under      *)
(* SpecPricing).                                                           *)
(***************************************************************************)
\* The configuration engine e has, all objects followed.
Configured(e) == ConfigValue(heap, config[e])

\* The estimateCredits call that lastEval records was made with these counts.
Estimated(model, feature, promptTokens, completionTokens) ==
    /\ lastEval.op = "estimateCredits"
    /\ lastEval.input.model = model /\ lastEval.input.feature = feature
    /\ lastEval.input.promptTokens = promptTokens
    /\ lastEval.input.completionTokens = completionTokens

\* C30 (as claimed): an engine built from the built-in defaults alone has
\* openai:gpt-4 at 0.03 / 0.06 dollars per 1000 tokens, a chat margin of 2.0
\* and a credit_per_dollar of 1000, and on it estimateCredits for openai:gpt-4,
\* chat, 150 prompt tokens and 350 completion tokens returns
\* estimatedCredits = 51.
C30_Gpt4ChatScenario ==
    custom = "none" =>
        /\ Configured(1).credit_per_dollar = Num(1000)
        /\ Configured(1).models["openai:gpt-4"].present
        /\ Configured(1).models["openai:gpt-4"].prompt_cost_per_1k = Num(3000)
        /\ Configured(1).models["openai:gpt-4"].completion_cost_per_1k = Num(6000)
        /\ Configured(1).models["openai:gpt-4"].features["chat"] = Num(20)
        /\ Estimated("openai:gpt-4", "chat", 150, 350) =>
              lastEval.estimate = Estimate(Millionths(51000000))

\* The configuration gives model m both of its prices.
FullyPriced(value, m) ==
    /\ value.models[m].present
    /\ value.models[m].prompt_cost_per_1k # Absent
    /\ value.models[m].completion_cost_per_1k # Absent

\* C23 (as claimed): estimateCredits with 0 prompt tokens and 0 completion tokens returns 0
\* credits and throws nothing, for every model that the configuration gives
\* its two prices and every feature, whether the model has the feature or not.
C23_ZeroTokensZeroCredits ==
    \A m \in ModelNames, f \in FeatureNames :
        (Estimated(m, f, 0, 0) /\ FullyPriced(Configured(lastEval.engine), m)) =>
            /\ lastEval.estimate.error = "none"
            /\ Is(lastEval.estimate.estimatedCredits, 0)
            /\ ~lastEval.estimate.estimatedCredits.negativeZero

\* The margin a configuration gives (model, feature): the margin of the feature
\* when the model has the feature with a margin other than 0, the default
\* margin otherwise.
ResolvedMargin(value, m, f) ==
    IF value.models[m].features[f] \notin {Absent, Num(0)}
    THEN value.models[m].features[f].v
    ELSE value.default_margin

\* The numbers that price the counts at the prices a configuration gives
\* model m, with the margin it gives (m, f).
PricedAt(value, m, f, promptTokens, completionTokens) ==
    [promptTokens |-> promptTokens, completionTokens |-> completionTokens,
     prompt_cost_per_1k |-> value.models[m].prompt_cost_per_1k,
     completion_cost_per_1k |-> value.models[m].completion_cost_per_1k,
     margin |-> ResolvedMargin(value, m, f),
     credit_per_dollar |-> value.credit_per_dollar]

\* C29: the margin estimateCredits and reconcile use for (model, feature) is the
\* margin of the feature when the model has the feature and its margin is not
\* 0, and default_margin otherwise (a feature the model has not, a model
\* without features, a feature margin of 0); reconcile uses the same margin as
\* estimateCredits, for the estimated credits and for the actual ones.
C29_MarginResolution ==
    (lastEval.op \in {"estimateCredits", "reconcile"}
       /\ Configured(lastEval.engine).models[lastEval.input.model].present) =>
        LET value == Configured(lastEval.engine)
            in == lastEval.input
            priced == PricedAt(value, in.model, in.feature, in.promptTokens,
                               in.completionTokens)
            estimated == EstimatedCredits(priced)
        IN  /\ lastEval.op = "estimateCredits" =>
                  lastEval.estimate = Estimate(estimated)
            /\ lastEval.op = "reconcile" =>
                  /\ lastEval.reconciliation.error = "none"
                  /\ lastEval.reconciliation.record =
                        ReconcileResult(priced, estimated, in.actualPromptTokens,
                                        in.actualCompletionTokens)

\* Witness of C29: reconcile for a feature whose margin is 0, on an engine whose
\* default margin is 2.0: 0.0005 dollar are estimated at 1 credit.
C29_Witness ==
    /\ custom = "merged" /\ lastEval.op = "reconcile"
    /\ lastEval.input.model = "openai:gpt-3.5-turbo" /\ lastEval.input.feature = "chat"
    /\ lastEval.input.promptTokens = 100 /\ lastEval.input.actualPromptTokens = 120
    /\ Configured(1).models["openai:gpt-3.5-turbo"].features["chat"] = Num(0)
    /\ Configured(1).default_margin = 20
    /\ Is(lastEval.reconciliation.record.estimatedCredits, 1000000)

\* The reconcile call that lastEval records returned a record.
Reconciled_ok == lastEval.op = "reconcile" /\ lastEval.reconciliation.error = "none"

\* C25 (as claimed): reconcile with actualPromptTokens = promptTokens and
\* actualCompletionTokens = completionTokens returns a credit delta of 0 and a
\* cost delta of 0, for every model that the configuration gives its two
\* prices, every feature and all token counts.
C25_PerfectEstimateZeroDelta ==
    (Reconciled_ok
       /\ FullyPriced(Configured(lastEval.engine), lastEval.input.model)
       /\ lastEval.input.actualPromptTokens = lastEval.input.promptTokens
       /\ lastEval.input.actualCompletionTokens = lastEval.input.completionTokens) =>
        /\ Is(lastEval.reconciliation.record.estimatedVsActualCreditDelta, 0)
        /\ Is(lastEval.reconciliation.record.costDelta, 0)

\* The actual counts are higher than the estimated ones: none is lower and one
\* at least is higher.  Lower likewise.
HigherCounts(in) ==
    /\ in.actualPromptTokens >= in.promptTokens
    /\ in.actualCompletionTokens >= in.completionTokens
    /\ in.actualPromptTokens + in.actualCompletionTokens
          > in.promptTokens + in.completionTokens
LowerCounts(in) ==
    /\ in.actualPromptTokens <= in.promptTokens
    /\ in.actualCompletionTokens <= in.completionTokens
    /\ in.actualPromptTokens + in.actualCompletionTokens
          < in.promptTokens + in.completionTokens

\* C26 (as claimed): reconcile with higher actual token counts than estimated
\* returns a credit delta > 0, and with lower actual counts a credit delta < 0,
\* for every model that the configuration gives its two prices.
C26_DeltaSignFollowsCounts ==
    (Reconciled_ok /\ FullyPriced(Configured(lastEval.engine), lastEval.input.model)) =>
        /\ HigherCounts(lastEval.input) =>
              Above0(lastEval.reconciliation.record.estimatedVsActualCreditDelta)
        /\ LowerCounts(lastEval.input) =>
              Below0(lastEval.reconciliation.record.estimatedVsActualCreditDelta)

\* The built-in default configuration, all objects followed.
DefaultValue == ConfigValue(Loaded.heap, Loaded.config)

\* C27: an engine constructed with an empty or absent customConfig has the
\* default configuration unchanged: the same default_margin, the same
\* credit_per_dollar, and every model of the default with its prices and its
\* features, and no other model; getConfig returns these values.
C27_EmptyCustomYieldsDefault ==
    /\ custom = "none" =>
          /\ Configured(1) = DefaultValue
          /\ (lastEval.op = "getConfig" /\ lastEval.engine = 1) =>
                lastEval.value = DefaultValue
    /\ DefaultValue.default_margin = DEFAULT_CONFIG.default_margin
    /\ DefaultValue.credit_per_dollar =
          IF "credit_per_dollar" \in DOMAIN DEFAULT_CONFIG
          THEN Num(DEFAULT_CONFIG.credit_per_dollar) ELSE Absent
    /\ \A m \in ModelNames :
          DefaultValue.models[m].present <=>
              \E i \in 1..Len(DEFAULT_CONFIG.models) : DEFAULT_CONFIG.models[i].name = m
    /\ \A i \in 1..Len(DEFAULT_CONFIG.models) :
          LET m == DEFAULT_CONFIG.models[i]
          IN  /\ DefaultValue.models[m.name].prompt_cost_per_1k = Num(m.prompt_cost_per_1k)
              /\ DefaultValue.models[m.name].completion_cost_per_1k
                    = Num(m.completion_cost_per_1k)
              /\ \A f \in FeatureNames :
                    DefaultValue.models[m.name].features[f] =
                        IF \E j \in 1..Len(m.features) : m.features[j].name = f
                        THEN Num(m.features[CHOOSE j \in 1..Len(m.features) :
                                               m.features[j].name = f].margin)
                        ELSE Absent

\* Witness of C27: getConfig was called on an engine made without customConfig.
C27_Witness ==
    /\ custom = "none" /\ lastEval.op = "getConfig" /\ lastEval.engine = 1
    /\ lastEval.value.default_margin = 15 /\ lastEval.value.credit_per_dollar = Absent
    /\ lastEval.value.models["openai:gpt-3.5-turbo"].features["chat"] = Num(15)
    /\ lastEval.value.models["cohere:command"].completion_cost_per_1k = Num(200)
    /\ ~lastEval.value.models["custom:model"].present

\* The entries of a customConfig literal for model m, and for feature f of an
\* entry.
CustomEntries(c, m) ==
    {i \in 1..Len(CustomConfig(c).models) : CustomConfig(c).models[i].name = m}
CustomFeatures(entry, f) ==
    {j \in 1..Len(entry.features) : entry.features[j].name = f}

\* What C28 says model m is after customConfig c was merged onto the default.
MergedModel(c, m) ==
    LET default == DefaultValue.models[m]
    IN  IF CustomEntries(c, m) = {} THEN default
        ELSE LET entry == CustomConfig(c).models[CHOOSE i \in CustomEntries(c, m) : TRUE]
                 own(f) == entry.features[CHOOSE j \in CustomFeatures(entry, f) : TRUE].margin
             IN  [present |-> TRUE,
                  prompt_cost_per_1k |->
                      IF entry.prompt_cost_per_1k # Absent THEN entry.prompt_cost_per_1k
                      ELSE default.prompt_cost_per_1k,
                  completion_cost_per_1k |->
                      IF entry.completion_cost_per_1k # Absent
                      THEN entry.completion_cost_per_1k
                      ELSE default.completion_cost_per_1k,
                  features |-> [f \in FeatureNames |->
                                  IF CustomFeatures(entry, f) # {} THEN Num(own(f))
                                  ELSE default.features[f]]]

\* C28: after customConfig c was merged onto the default, a model that both
\* have has the prices and the features that c gives it, and keeps the price
\* and every feature of the default that c does not mention; a model that only
\* the default has is as in the default; a model that only c has is as c gives
\* it.
C28_MergeOverridesOnlyWhatIsGiven ==
    /\ \A m \in ModelNames : Configured(1).models[m] = MergedModel(custom, m)
    /\ (lastEval.op = "getConfig" /\ lastEval.engine = 1) =>
          \A m \in ModelNames : lastEval.value.models[m] = MergedModel(custom, m)

\* Witness of C28: customConfig gave openai:gpt-4 a prompt price only, and a
\* model of its own.
C28_Witness ==
    /\ custom = "partial" /\ lastEval.op = "getConfig" /\ lastEval.engine = 1
    /\ lastEval.value.models["openai:gpt-4"].prompt_cost_per_1k = Num(3500)
    /\ lastEval.value.models["openai:gpt-4"].completion_cost_per_1k = Num(6000)
    /\ lastEval.value.models["openai:gpt-4"].features = DefaultValue.models["openai:gpt-4"].features
    /\ lastEval.value.models["openai:gpt-4"].features["chat"] = Num(20)
    /\ lastEval.value.models["custom:model"].present
    /\ lastEval.value.models["custom:model"].prompt_cost_per_1k = Num(1000)
    /\ lastEval.value.models["openai:gpt-3.5-turbo"] = DefaultValue.models["openai:gpt-3.5-turbo"]

(***************************************************************************)
(* Claims about the calls on an engine while configurations arrive         *)
(* (checked under SpecEngine).                                             *)
(***************************************************************************)
\* Everything an engine and its dashboard client hold, but the record of the
\* last call.
EngineState ==
    <<heap, config, custom, updates, lastDoc, returned, mutations,
      dashboardSyncEnabled, dashboardClient, replacedClients, callbackGiven, enableCalls, lastSyncCall,
      wrapPc, wrapError, postPromise, postErrorsLogged, appRejections,
      callVars, subVars, reqVars>>

\* C24: estimateCredits and reconcile are pure: a call changes neither the
\* configuration of any engine, nor the dashboard-sync state, nor anything else
\* the engine holds, and the same call made again, the configuration being
\* unchanged, returns the same output.
C24_EstimateAndReconcilePure ==
    [][(lastEval' # lastEval /\ lastEval'.op \in {"estimateCredits", "reconcile"}) =>
          /\ EngineState' = EngineState
          /\ lastEval'.op = "estimateCredits" =>
                estimateCredits(heap', config'[lastEval'.engine],
                                [model |-> lastEval'.input.model,
                                 feature |-> lastEval'.input.feature,
                                 promptTokens |-> lastEval'.input.promptTokens,
                                 completionTokens |-> lastEval'.input.completionTokens])
                    = lastEval'.estimate
          /\ lastEval'.op = "reconcile" =>
                reconcile(heap', config'[lastEval'.engine], lastEval'.input)
                    = lastEval'.reconciliation]_vars

\* Witness of C24: estimateCredits returned on an engine whose sync is on and
\* whose configuration the dashboard has replaced.
C24_Witness ==
    /\ lastEval.op = "estimateCredits" /\ lastEval.engine = 1
    /\ lastEval.estimate.error = "none" /\ lastEval.doc = "configA"
    /\ dashboardSyncEnabled /\ updates = 1

(***************************************************************************)
(* Claims about the model lookup (checked under SpecLookup).               *)
(***************************************************************************)
\* The model identifiers of the configuration in force on engine e after
\* document doc.
ModelsInForce(e, doc) ==
    {m \in ModelNames :
        ConfigValue(InForce(e, doc).heap, InForce(e, doc).config).models[m].present}

\* C22 (as claimed): estimateCredits, reconcile and getAvailableFeatures called
\* with a model identifier that the configuration in force does not have throw
\* an error whose message names that identifier and lists every model
\* identifier of the configuration in force (the models of the last document
\* once the dashboard has replaced the configuration).
C22_UnknownModelErrorListsModels ==
    (lastEval.op \in {"estimateCredits", "reconcile", "getAvailableFeatures"}
       /\ lastEval.input.model \notin ModelsInForce(lastEval.engine, lastEval.doc)) =>
        /\ lastEval.thrown = [model |-> lastEval.input.model,
                              available |-> ModelsInForce(lastEval.engine, lastEval.doc)]
        /\ lastEval.op = "estimateCredits" => lastEval.estimate.error = "UnknownModelError"
        /\ lastEval.op = "reconcile" => lastEval.reconciliation.error = "UnknownModelError"
        /\ lastEval.op = "getAvailableFeatures" =>
              lastEval.features.error = "UnknownModelError"


\* ---- C21
\* What run c ended with.
EndOf(c) == [pc |-> calls[c].pc, error |-> calls[c].error, result |-> calls[c].result]

\* C21: wrapCall() runs made together on one engine whose configuration does
\* not change are independent: under every interleaving of their steps, each
\* run that ended has ended as it does when it is the only run of a freshly
\* constructed engine given the same input, function outcome and extractor;
\* in particular its reconciliation record is the same and the response it
\* returns is the one its own function resolved with.
C21_ConcurrentCallsIndependent ==
    \A c \in CallIds :
        calls[c].pc \in {"returned", "threw"} =>
            /\ EndOf(c) = OfflineWrapCall(custom, calls[c].arg, calls[c].outcome,
                                          calls[c].extractor)
            /\ calls[c].pc = "returned" => calls[c].result.response = calls[c].outcome.value

\* Run 2 started while run 1 awaited its function, with another input; both
\* returned, with different responses.
C21_Witness ==
    /\ calls[1].pc = "returned"
    /\ calls[2].pc = "returned"
    /\ calls[2].overlapped
    /\ calls[1].arg # calls[2].arg
    /\ calls[1].result.response # calls[2].result.response
    /\ calls[1].result.reconciliation # calls[2].result.reconciliation

\* ---- C31
\* The reconcile call of the scenario: openai:gpt-4, chat, 150 / 350 tokens
\* estimated and 160 / 340 used.
C31_Scenario ==
    /\ Reconciled_ok
    /\ lastEval.input = ReconcileInput([model |-> "openai:gpt-4", feature |-> "chat",
                                        promptTokens |-> 150, completionTokens |-> 350],
                                       [promptTokens |-> 160, completionTokens |-> 340])

\* C31 (as claimed): on an engine built from the built-in defaults alone,
\* reconcile for openai:gpt-4 / chat with 150 / 350 tokens estimated and
\* 160 / 340 used returns estimatedCredits = 51, the value estimateCredits
\* returns for the estimated counts, actualTokensUsed = 500,
\* actualCost = 0.0252 and a credit delta of -0.6.
C31_ReconcileScenario ==
    (custom = "none" /\ C31_Scenario) =>
        /\ Is(lastEval.reconciliation.record.estimatedCredits, 51000000)
        /\ lastEval.reconciliation.record.estimatedCredits =
              estimateCredits(heap, config[1],
                              [model |-> "openai:gpt-4", feature |-> "chat",
                               promptTokens |-> 150,
                               completionTokens |-> 350]).estimatedCredits
        /\ lastEval.reconciliation.record.actualTokensUsed = 500
        /\ Is(lastEval.reconciliation.record.actualCost, 25200)
        /\ Is(lastEval.reconciliation.record.estimatedVsActualCreditDelta, -600000)

\* ---- C32
\* The dollar costs of the estimated and of the actual counts of a reconcile
\* call, at the prices of the configuration, in 1e-8 dollar.
DollarsAt(value, m, promptTokens, completionTokens) ==
    promptTokens * value.models[m].prompt_cost_per_1k.v
        + completionTokens * value.models[m].completion_cost_per_1k.v
EstimatedCostOf(value, in) ==
    DollarsAt(value, in.model, in.promptTokens, in.completionTokens)
ActualCostOf(value, in) ==
    DollarsAt(value, in.model, in.actualPromptTokens, in.actualCompletionTokens)

\* C32: reconcile whose actual dollar cost or estimated dollar cost is zero
\* returns a marginDelta that is not a finite number; the other fields are as
\* usual: with zero actual tokens and estimated credits above zero,
\* actualTokensUsed = 0, actualCost = 0 and the credit delta is below zero.
C32_ZeroCostMarginDeltaNotFinite ==
    (Reconciled_ok /\ FullyPriced(Configured(lastEval.engine), lastEval.input.model)) =>
        LET value == Configured(lastEval.engine)
            in == lastEval.input
            record == lastEval.reconciliation.record
        IN  /\ (ActualCostOf(value, in) = 0 \/ EstimatedCostOf(value, in) = 0) =>
                  record.marginDelta.kind # "num"
            /\ (in.actualPromptTokens = 0 /\ in.actualCompletionTokens = 0
                  /\ Above0(record.estimatedCredits)) =>
                  /\ record.actualTokensUsed = 0
                  /\ Is(record.actualCost, 0)
                  /\ Below0(record.estimatedVsActualCreditDelta)
                  /\ Is(record.estimatedVsActualCreditDelta, -record.estimatedCredits.v)

\* Witness of C32: the test's call, 100 / 200 tokens estimated and none used,
\* on an engine made with a credit_per_dollar of 1: the delta is -0.03 credits.
C32_Witness ==
    /\ custom = "perDollar" /\ Reconciled_ok
    /\ lastEval.input.model = "openai:gpt-4" /\ lastEval.input.feature = "chat"
    /\ lastEval.input.promptTokens = 100 /\ lastEval.input.completionTokens = 200
    /\ lastEval.input.actualPromptTokens = 0 /\ lastEval.input.actualCompletionTokens = 0
    /\ lastEval.reconciliation.record.marginDelta = NotANumber
    /\ Is(lastEval.reconciliation.record.estimatedVsActualCreditDelta, -30000)

\* ---- C38
\* The heap when the constructor of engine 1 is entered: the objects of
\* DEFAULT_CONFIG and those of the customConfig the caller wrote.
BeforeConstruct == NewPartialConfig(Loaded.heap, CustomConfig(custom)).heap

\* C38: mergeConfigs is pure.  Constructing engine 1 with a custom configuration
\* writes to no object of DEFAULT_CONFIG and to no object of the caller's
\* customConfig, then or later; engine 2, constructed afterwards with no custom
\* configuration, has exactly the built-in default values, and still has them
\* after the configuration of engine 1 was replaced.
C38_MergeIsPure ==
    /\ Len(heap) >= Len(BeforeConstruct)
    /\ SubSeq(heap, 1, Len(BeforeConstruct)) = BeforeConstruct
    /\ ConfigValue(heap, Loaded.config) = DefaultValue
    /\ Configured(2) = DefaultValue

\* Witness of C38: engine 1 was made with a custom configuration and had its
\* configuration replaced, and getConfig() on engine 2 returned the defaults.
C38_Witness ==
    /\ custom = "perDollar" /\ updates > 0
    /\ Configured(1) # DefaultValue
    /\ lastEval.op = "getConfig" /\ lastEval.engine = 2
    /\ lastEval.value = DefaultValue

\* ---- C37
\* The request has settled: retryRequest resolved or rejected.
Settled == reqPc \in {"resolved", "rejected"}

\* C37 (as claimed): every postReconciliation and getConfig call eventually
\* settles, whatever the remote endpoint does, including when it never answers
\* a request or never finishes sending a response body.
C37_EveryRequestSettles == (reqOp # "none") ~> Settled

\* ---- C36
\* The step in which a wrapCall() reaches the end of its reconciliation and
\* returns.
ReconciliationCompletes == wrapPc = "invoking" /\ wrapPc' = "returned"

\* C36: a wrapCall() submits a reconciliation log if and only if dashboard sync
\* is enabled when its reconciliation completes.  With sync disabled then
\* (never enabled, or disabled before the function resolved) no fetch() call is
\* made and no log is built; with sync enabled exactly one post is started, and
\* its log carries the model, the feature and the token counts of the call, the
\* record the call returns and the credit_per_dollar in force.  No other step
\* of the engine starts a post.
C36_LogPostedIffSyncEnabled ==
    [][IF ReconciliationCompletes
       THEN IF dashboardSyncEnabled
            THEN /\ dashboardClient
                 /\ fetchCalls' = fetchCalls + 1
                 /\ reqOp' = "post" /\ reqPc' = "fetching"
                 /\ postedLog'.input =
                       ReconcileInput(wrapInput,
                                      IF extractorOutcome' = "none"
                                      THEN EstimatedUsage(wrapInput)
                                      ELSE TokenUsage(functionOutcome'.value))
                 /\ postedLog'.reconciliation = wrapResult'.reconciliation
                 /\ postedLog'.creditPerDollar = config[1].credit_per_dollar
            ELSE /\ fetchCalls' = fetchCalls /\ reqPc' = reqPc
                 /\ postedLog' = NoLog
       ELSE fetchCalls' = fetchCalls /\ postedLog' = postedLog]_vars

\* Witness of C36: a call whose extractor read the counts returned with sync
\* enabled, and its log was posted.
C36_Witness ==
    /\ wrapPc = "returned" /\ dashboardSyncEnabled
    /\ extractorOutcome = "ok"
    /\ fetchCalls = 1 /\ reqOp = "post"
    /\ postedLog # NoLog
    /\ postedLog.reconciliation = wrapResult.reconciliation
    /\ postedLog.input.actualPromptTokens # postedLog.input.promptTokens

(***************************************************************************)
(* C34: while polling, one getConfig() is started when the polling starts  *)
(* and one on each tick of a timer of 30 s, and at no other step; a fetch  *)
(* that resolves calls the update callback once, with the fetched          *)
(* configuration; a fetch that rejects calls no callback, clears no timer  *)
(* and leaves the client subscribed and polling.                           *)
(***************************************************************************)
PollingStarts == Len(intervals') = Len(intervals) + 1

TimerRunning == \E k \in 1..Len(intervals) : intervals[k].active

C34_PollingFetchesAndCallbacks ==
    [][/\ PollingStarts =>
            /\ pollFetches' = pollFetches + 1
            /\ intervals'[Len(intervals')] = [active |-> TRUE, ms |-> 30000]
            /\ pollingInterval' = Len(intervals')
       /\ pollFetches' # pollFetches =>
            /\ pollFetches' = pollFetches + 1
            /\ pollsInFlight' = pollsInFlight + 1
            /\ PollingStarts \/ (TimerRunning /\ intervals' = intervals)
       /\ event'.from = "poll" =>
            /\ event'.onUpdate = event'.doc
            /\ event'.doc \in Docs
            /\ pollsInFlight' = pollsInFlight - 1
       /\ event'.from = "pollFailed" =>
            /\ event'.onUpdate = "none"
            /\ pollsInFlight' = pollsInFlight - 1
            /\ intervals' = intervals
            /\ pollingInterval' = pollingInterval
            /\ isSubscribed' = isSubscribed]_vars

\* A fetch started by a tick has failed; the client is still polling.
C34_Witness ==
    /\ event.from = "pollFailed"
    /\ pollFetches = 2
    /\ isSubscribed
    /\ pollingInterval # NULL
    /\ intervals[pollingInterval].active

(***************************************************************************)
(* C33: while the client is subscribed, an attempt that fails or times out *)
(* runs its fallback, the last of which starts the polling timer; an       *)
(* attempt that opens is adopted as the stream and starts no polling, then *)
(* or later; and as long as no attempt has opened, a subscribed client has *)
(* an attempt pending, a fallback about to run, or the polling timer.      *)
(***************************************************************************)
Polling == pollingInterval # NULL /\ intervals[pollingInterval].active

AttemptPending == \E i \in ConnIds : conns[i].readyState = "CONNECTING"

NoAttemptOpened == \A i \in ConnIds : conns[i].promise # "resolved"

ConnAttemptFails(i) == conns[i].promise = "pending" /\ conns'[i].promise = "rejected"

ConnAttemptOpens(i) == conns[i].promise = "pending" /\ conns'[i].promise = "resolved"

HandlerRuns ==
    microtasks # <<>> /\ microtasks' # microtasks /\ subscribeCalls' = subscribeCalls

FailedAttemptFallsBack ==
    isSubscribed /\ NoAttemptOpened => AttemptPending \/ microtasks # <<>> \/ Polling

AttemptOutcomes ==
    /\ \A i \in ConnIds :
         /\ ConnAttemptFails(i) => microtasks' = Append(microtasks, conns[i].onReject)
         /\ ConnAttemptOpens(i) =>
              /\ configSubscription' = i
              /\ conns'[i].readyState = "OPEN"
              /\ microtasks' = microtasks
              /\ intervals' = intervals
              /\ pollingInterval' = pollingInterval
         /\ conns[i].promise = "resolved" => conns'[i].promise = "resolved"
    /\ HandlerRuns =>
         IF Head(microtasks) = "startPolling"
         THEN /\ Len(intervals') = Len(intervals) + 1
              /\ pollingInterval' = Len(intervals')
              /\ intervals'[pollingInterval'] = [active |-> TRUE, ms |-> 30000]
         ELSE /\ intervals' = intervals
              /\ IF sseAvailable
                 THEN /\ Len(conns') = Len(conns) + 1
                      /\ conns'[Len(conns')].readyState = "CONNECTING"
                      /\ conns'[Len(conns')].timeoutMs = 10000
                      /\ conns'[Len(conns')].onReject = "startPolling"
                 ELSE microtasks' = Tail(microtasks) \o <<"startPolling">>

C33_FailedAttemptLeadsToPolling == []FailedAttemptFallsBack /\ [][AttemptOutcomes]_vars

\* Both attempts of a subscribed client have failed and it is polling.
C33_Witness ==
    /\ isSubscribed /\ Polling /\ NoAttemptOpened
    /\ Len(conns) = 2
    /\ \A i \in ConnIds : conns[i].promise = "rejected"

(***************************************************************************)
(* C35: when a stream that had opened closes while the client is           *)
(* subscribed, whichever its transport, a reconnection timer of 5 s is     *)
(* set, and when it fires with the client still subscribed a new attempt   *)
(* is made; a close or a timer that finds the client unsubscribed makes    *)
(* no attempt.                                                             *)
(***************************************************************************)
StreamCloses(i) ==
    /\ conns[i].promise = "resolved"
    /\ conns[i].readyState # "CLOSED"
    /\ conns'[i].readyState = "CLOSED"

ReconnectDelayEnds == reconnects # <<>> /\ reconnects' = Tail(reconnects)

CloseLeadsToReconnect(kinds) ==
    /\ \A i \in ConnIds :
         StreamCloses(i) /\ conns[i].kind \in kinds =>
            /\ isSubscribed /\ isSubscribed' => reconnects' = Append(reconnects, 5000)
            /\ ~isSubscribed => reconnects' = reconnects /\ Len(conns') = Len(conns)
    /\ ReconnectDelayEnds =>
         IF isSubscribed
         THEN /\ Len(conns') = Len(conns) + 1
              /\ conns'[Len(conns')].kind = "ws"
              /\ conns'[Len(conns')].readyState = "CONNECTING"
         ELSE conns' = conns /\ microtasks' = microtasks /\ intervals' = intervals

C35_CloseFollowedByReconnect == [][CloseLeadsToReconnect({"ws", "sse"})]_vars

(***************************************************************************)
(* C39: while the client is unsubscribed, no step calls the update         *)
(* callback: not a message of a stream that was still opening, nor a       *)
(* configuration fetch that was started before unsubscribe() and completes *)
(* after it.                                                               *)
(***************************************************************************)
C39_NoCallbackAfterUnsubscribe == ~isSubscribed => event.onUpdate = "none"

(***************************************************************************)
(* C40: of the dashboard clients an engine has created, exactly one is     *)
(* subscribed when isDashboardSyncEnabled() is true and none is when it is *)
(* false, whatever enableDashboardSync and disableDashboardSync calls were *)
(* made.                                                                   *)
(***************************************************************************)
isDashboardSyncEnabled == dashboardSyncEnabled

SubscribedClients == replacedClients + (IF isSubscribed THEN 1 ELSE 0)

C40_OneSubscribedClientIffEnabled ==
    SubscribedClients = IF isDashboardSyncEnabled THEN 1 ELSE 0

====
